---- MODULE Spec2Model ----
(***************************************************************************)
(* Text-normalization subsystem of asr-finetuning:                         *)
(*   optimization/prediction_normalization/corpus_normalizer.py            *)
(*   optimization/prediction_normalization/corpus_analyzer.py              *)
(*   optimization/proper_noun_handling/extract_from_predictions.py         *)
(*   optimization/proper_noun_handling/test_proper_noun_normalization.py   *)
(*   optimization/proper_noun_handling/test_combined_normalization.py      *)
(*   optimization/prediction_normalization/apply_normalization.py          *)
(*   optimization/prediction_normalization/orthographic_style_guide.py     *)
(*   optimization/prediction_normalization/corpus_normalizer_conservative.py *)
(*                                                                         *)
(* A Python str is a sequence of Unicode code points (naturals); a dict is *)
(* a sequence of <<key, value>> pairs in insertion order, or a function    *)
(* where the code never iterates it.                                       *)
(***************************************************************************)
EXTENDS Integers, Sequences, FiniteSets, TLC

(***************************************************************************)
(* Code points                                                             *)
(***************************************************************************)
SP == 32
TAB == 9
HYPHEN == 45
DQUOTE == 34
SQUOTE == 39
PIPE == 124
ASCII_ZERO == 48
EN_DASH == 8211
EM_DASH == 8212
MINUS_SIGN == 8722

\* the typographic quotes U+2018, U+2019, U+201C, U+201D
LSQUOTE == 8216

RSQUOTE == 8217

LDQUOTE == 8220

RDQUOTE == 8221
KA == 3221
MA == 3246
E_SIGN == 3270
EE_SIGN == 3271
LEN_MARK == 3285
KN_ZERO == 3302
KN_ONE == 3303
KN_LO == 3200
KN_HI == 3327

(***************************************************************************)
(* Bounds of the model                                                     *)
(***************************************************************************)
MaxLen == 5
MaxSymLen == 2

(***************************************************************************)
(* Python str primitives                                                   *)
(***************************************************************************)
Min2(a, b) == IF a <= b THEN a ELSE b

Max2(a, b) == IF a >= b THEN a ELSE b

\* str.isspace() / regex \s on the code points the model uses
IsSpace(c) == c \in {9, 10, 11, 12, 13, 28, 29, 30, 31, 32, 133, 160}

StrOfLen(S, n) == [1..n -> S]

StrUpTo(S, n) == UNION {StrOfLen(S, k) : k \in 0..n}

RECURSIVE Concat(_)
Concat(ss) == IF ss = <<>> THEN <<>> ELSE Head(ss) \o Concat(Tail(ss))

\* sep.join(tokens)
RECURSIVE Join(_, _)
Join(tokens, sep) ==
    IF tokens = <<>> THEN <<>>
    ELSE IF Len(tokens) = 1 THEN tokens[1]
    ELSE tokens[1] \o sep \o Join(Tail(tokens), sep)

\* str.split(): the maximal runs of non-whitespace characters, in order
RECURSIVE SplitAcc(_, _, _)
SplitAcc(s, word, acc) ==
    IF s = <<>> THEN (IF word = <<>> THEN acc ELSE Append(acc, word))
    ELSE IF IsSpace(Head(s))
         THEN SplitAcc(Tail(s), <<>>, IF word = <<>> THEN acc ELSE Append(acc, word))
         ELSE SplitAcc(Tail(s), Append(word, Head(s)), acc)

Split(s) == SplitAcc(s, <<>>, <<>>)

\* str.strip()
RECURSIVE LStrip(_)
LStrip(s) == IF s # <<>> /\ IsSpace(Head(s)) THEN LStrip(Tail(s)) ELSE s

RECURSIVE RStrip(_)
RStrip(s) ==
    IF s # <<>> /\ IsSpace(s[Len(s)]) THEN RStrip(SubSeq(s, 1, Len(s) - 1)) ELSE s

Strip(s) == RStrip(LStrip(s))

\* `sub in s`
Contains(s, sub) ==
    \E k \in 0..(Len(s) - Len(sub)) : SubSeq(s, k + 1, k + Len(sub)) = sub

StartsWith(s, p) == Len(p) <= Len(s) /\ SubSeq(s, 1, Len(p)) = p

\* str.replace(old, new): leftmost non-overlapping occurrences; an empty
\* `old` matches before every character and at the end
RECURSIVE ReplaceEmpty(_, _)
ReplaceEmpty(s, new) ==
    IF s = <<>> THEN new ELSE new \o <<Head(s)>> \o ReplaceEmpty(Tail(s), new)

RECURSIVE ReplaceScan(_, _, _)
ReplaceScan(s, old, new) ==
    IF Len(s) < Len(old) THEN s
    ELSE IF StartsWith(s, old)
         THEN new \o ReplaceScan(SubSeq(s, Len(old) + 1, Len(s)), old, new)
         ELSE <<Head(s)>> \o ReplaceScan(Tail(s), old, new)

Replace(s, old, new) ==
    IF old = <<>> THEN ReplaceEmpty(s, new) ELSE ReplaceScan(s, old, new)

\* Python's str ordering: lexicographic by code point, a proper prefix first
RECURSIVE StrLess(_, _)
StrLess(a, b) ==
    IF b = <<>> THEN FALSE
    ELSE IF a = <<>> THEN TRUE
    ELSE IF Head(a) # Head(b) THEN Head(a) < Head(b)
    ELSE StrLess(Tail(a), Tail(b))

\* min(a, b) on str
StrMin(a, b) == IF StrLess(b, a) THEN b ELSE a

\* unicodedata.normalize('NFC', text) on the model's code points: the vowel
\* sign EE (U+0CC7) is canonically E (U+0CC6) + LENGTH MARK (U+0CD5); every
\* other code point of the model is its own NFC form with combining class 0
RECURSIVE Decompose(_)
Decompose(s) ==
    IF s = <<>> THEN <<>>
    ELSE IF Head(s) = EE_SIGN THEN <<E_SIGN, LEN_MARK>> \o Decompose(Tail(s))
    ELSE <<Head(s)>> \o Decompose(Tail(s))

RECURSIVE Compose(_)
Compose(s) ==
    IF Len(s) < 2 THEN s
    ELSE IF s[1] = E_SIGN /\ s[2] = LEN_MARK
         THEN <<EE_SIGN>> \o Compose(SubSeq(s, 3, Len(s)))
         ELSE <<Head(s)>> \o Compose(Tail(s))

NFC(s) == Compose(Decompose(s))

IsNFC(s) == NFC(s) = s

(***************************************************************************)
(* State                                                                   *)
(***************************************************************************)
VARIABLES
    \* CorpusBasedNormalizer
    vocabulary,     \* self.vocabulary: word -> frequency
    rules,          \* self.rules: the list read by the last load_rules
    rule_map,       \* self.rule_map: <<source, target>> pairs in insertion order
    text,           \* argument of the normalize call in progress
    use_vocab,      \* argument of the call
    use_rules,      \* argument of the call
    cur,            \* the local `text` as the stages rewrite it
    prev,           \* the value the last executed stage received
    trace,          \* the stages executed by the call, in order
    out,            \* the returned string
    pc,             \* position of the call in normalize
    pass,           \* 1: call on a fresh input, 2: call on the previous result
    loads,          \* number of load_rules calls so far
    orig,           \* the fresh input a call on a previous result goes back to
    \* CorpusAnalyzer
    word_freq,      \* self.word_freq: <<word, count>> pairs in insertion order
    bigram_freq,    \* self.bigram_freq: <<<<w1, w2>>, count>> pairs
    trigram_freq,   \* self.trigram_freq: <<<<w1, w2, w3>>, count>> pairs
    scans,          \* number of analyze_file calls so far
    variations,     \* result of the last find_compound_variations: <<key, list>> pairs
    found_min_freq, \* its min_freq argument
    anl_rules,      \* result of get_normalization_rules on `variations`
    aphase,         \* "scan": tables being built, "found": variations
                    \* computed from the tables, "ruled": rules computed
    \* proper-noun handling
    mismatches,     \* the mismatch list main() of extract_from_predictions holds
    val_corpus,     \* the corpus lines validate_against_corpus was given
    val_max_lines,  \* its max_lines argument
    categorized,    \* 'categorized' of mismatch_analysis.json: one list per category
    vphase,         \* position of main(): "start", "extracted", "validated",
                    \* "saved", or "error" after an uncaught exception
    pn_map,         \* ProperNounNormalizer.variant_map, <<word, word>> pairs
    pn_loaded,      \* a ProperNounNormalizer has been constructed
    cn_map,         \* CombinedNormalizer.variant_map
    cn_loaded,      \* a CombinedNormalizer has been constructed
    pn_text,        \* argument of the last ProperNounNormalizer.normalize
    pn_out,         \* its result
    pn_calls,       \* number of normalize calls so far
    \* apply_normalization.py
    created,        \* create_normalizer has returned the normalizer
    vocab_found,    \* vocabulary.json existed in rules_dir
    rules_found,    \* normalization_rules.json existed in rules_dir
    pred_data,      \* the list load_predictions returned
    pred_norm,      \* the list normalize_predictions returned
    \* the last normalize call on one of the three plain normalizers
    call_kind,      \* "corpus", "style" or "conservative"; "none" before any call
    call_text,      \* its argument
    call_steps,     \* <<stage, result>> of every stage it ran, in order
    call_out,       \* the value it returned
    \* CombinedNormalizer
    cn_rule_map,    \* self.rule_map: <<source, rule>> pairs
    cn_text,        \* argument of the last CombinedNormalizer.normalize
    cn_mid,         \* the text after its proper-noun step
    cn_out,         \* its result
    cn_calls        \* number of normalize calls so far

normVars == <<vocabulary, rules, rule_map, text, use_vocab, use_rules,
              cur, prev, trace, out, pc, pass, loads, orig>>

anlVars == <<word_freq, bigram_freq, trigram_freq, scans, variations,
             found_min_freq, anl_rules, aphase>>

pnVars == <<mismatches, val_corpus, val_max_lines, categorized, vphase,
            pn_map, pn_loaded, cn_map, cn_loaded, pn_text, pn_out, pn_calls>>

toolVars == <<created, vocab_found, rules_found, pred_data, pred_norm>>

callVars == <<call_kind, call_text, call_steps, call_out>>

cmbVars == <<cn_rule_map, cn_text, cn_mid, cn_out, cn_calls>>

extVars == <<toolVars, callVars, cmbVars>>

vars == <<normVars, anlVars, pnVars, extVars>>

(***************************************************************************)
(* CorpusBasedNormalizer: the stages                                       *)
(***************************************************************************)
\* dict.get(key, default) on a dict held as a function
DictGet(d, k, default) == IF k \in DOMAIN d THEN d[k] ELSE default

EmptyDict == [w \in {} |-> 0]

NormalizeUnicode(t) == NFC(t)

\* re.sub(r'\s+', ' ', text)
RECURSIVE CollapseSpaces(_, _)
CollapseSpaces(s, inRun) ==
    IF s = <<>> THEN <<>>
    ELSE IF IsSpace(Head(s))
         THEN (IF inRun THEN <<>> ELSE <<SP>>) \o CollapseSpaces(Tail(s), TRUE)
         ELSE <<Head(s)>> \o CollapseSpaces(Tail(s), FALSE)

NormalizeWhitespace(t) == Strip(CollapseSpaces(t, FALSE))

NormalizePunctuation(t) ==
    LET d1 == Replace(t, <<EN_DASH>>, <<HYPHEN>>)
        d2 == Replace(d1, <<EM_DASH>>, <<HYPHEN>>)
        d3 == Replace(d2, <<MINUS_SIGN>>, <<HYPHEN>>)
        q1 == Replace(Replace(d3, <<DQUOTE>>, <<DQUOTE>>), <<DQUOTE>>, <<DQUOTE>>)
        q2 == Replace(Replace(q1, <<SQUOTE>>, <<SQUOTE>>), <<SQUOTE>>, <<SQUOTE>>)
    IN  q2

\* a variant whose translation table stops at the digit eight
NormalizeNumeralsEightDigits(t) ==
    [k \in 1..Len(t) |->
        IF t[k] >= KN_ZERO /\ t[k] <= KN_ZERO + 8
        THEN ASCII_ZERO + (t[k] - KN_ZERO) ELSE t[k]]

NormalizeNumerals(t) ==
    [k \in 1..Len(t) |->
        IF t[k] >= KN_ZERO /\ t[k] <= KN_ZERO + 9
        THEN ASCII_ZERO + (t[k] - KN_ZERO) ELSE t[k]]

RECURSIVE ApplyRuleMap(_, _)
ApplyRuleMap(t, rm) ==
    IF rm = <<>> THEN t
    ELSE ApplyRuleMap(Replace(t, rm[1][1], rm[1][2]), Tail(rm))

\* a variant that applies the rules to each whitespace token on its own
ApplyRulesToTokens(t, rm) ==
    LET tokens == Split(t)
    IN  Join([k \in 1..Len(tokens) |-> ApplyRuleMap(tokens[k], rm)], <<SP>>)

RECURSIVE ReverseSeq(_)
ReverseSeq(q) == IF q = <<>> THEN <<>> ELSE Append(ReverseSeq(Tail(q)), Head(q))

\* a variant that applies the rules from the last to the first
ApplyRulesLastFirst(t, rm) == ApplyRuleMap(t, ReverseSeq(rm))

ApplyRules(t, rm) == ApplyRuleMap(t, rm)

\* a variant that takes the last of several equally good splits
RECURSIVE SplitScanLastOnTies(_, _, _, _, _)
SplitScanLastOnTies(token, vocab, j, best_split, best_score) ==
    IF j > Len(token) - 2 THEN <<best_split, best_score>>
    ELSE LET part1 == SubSeq(token, 1, j)
             part2 == SubSeq(token, j + 1, Len(token))
             freq1 == DictGet(vocab, part1, 0)
             freq2 == DictGet(vocab, part2, 0)
             score == Min2(freq1, freq2)
         IN  IF freq1 > 0 /\ freq2 > 0 /\ score >= best_score
             THEN SplitScanLastOnTies(token, vocab, j + 1, <<part1, part2>>, score)
             ELSE SplitScanLastOnTies(token, vocab, j + 1, best_split, best_score)

\* lines 114-128: the split of `token` with the best min(freq1, freq2)
RECURSIVE SplitScan(_, _, _, _, _)
SplitScan(token, vocab, j, best_split, best_score) ==
    IF j > Len(token) - 2 THEN <<best_split, best_score>>
    ELSE LET part1 == SubSeq(token, 1, j)
             part2 == SubSeq(token, j + 1, Len(token))
             freq1 == DictGet(vocab, part1, 0)
             freq2 == DictGet(vocab, part2, 0)
             score == Min2(freq1, freq2)
         IN  IF freq1 > 0 /\ freq2 > 0 /\ score > best_score
             THEN SplitScan(token, vocab, j + 1, <<part1, part2>>, score)
             ELSE SplitScan(token, vocab, j + 1, best_split, best_score)

SPLIT_MIN_SCORE == 10

MERGE_FACTOR == 2

\* a variant that accepts the best split whatever its score
SplitTokenAnyScore(token, vocab) ==
    IF token \in DOMAIN vocab THEN <<token>>
    ELSE LET best == SplitScan(token, vocab, 2, <<>>, 0)
         IN  IF best[1] # <<>> THEN best[1] ELSE <<token>>

\* lines 108-135: what one unmerged token contributes to normalized_tokens
SplitToken(token, vocab) ==
    IF token \in DOMAIN vocab THEN <<token>>
    ELSE LET best == SplitScan(token, vocab, 2, <<>>, 0)
         IN  IF best[1] # <<>> /\ best[2] > SPLIT_MIN_SCORE
             THEN best[1] ELSE <<token>>

\* a variant that also merges when the compound is exactly twice as frequent
ShouldMergeAtLeastTwice(token, next_token, vocab) ==
    DictGet(vocab, token \o next_token, 0)
        >= Min2(DictGet(vocab, token, 0), DictGet(vocab, next_token, 0)) * MERGE_FACTOR

\* line 103
ShouldMerge(token, next_token, vocab) ==
    DictGet(vocab, token \o next_token, 0)
        > Min2(DictGet(vocab, token, 0), DictGet(vocab, next_token, 0)) * MERGE_FACTOR

\* a variant that moves on by one token after a merge
RECURSIVE VocabLoopRescanningNext(_, _, _, _)
VocabLoopRescanningNext(tokens, i, normalized_tokens, vocab) ==
    IF i > Len(tokens) THEN normalized_tokens
    ELSE IF i < Len(tokens) /\ ShouldMerge(tokens[i], tokens[i + 1], vocab)
         THEN VocabLoopRescanningNext(tokens, i + 1,
                        Append(normalized_tokens, tokens[i] \o tokens[i + 1]), vocab)
         ELSE VocabLoopRescanningNext(tokens, i + 1,
                        normalized_tokens \o SplitToken(tokens[i], vocab), vocab)

\* lines 87-137: the while loop over tokens
RECURSIVE VocabLoop(_, _, _, _)
VocabLoop(tokens, i, normalized_tokens, vocab) ==
    IF i > Len(tokens) THEN normalized_tokens
    ELSE IF i < Len(tokens) /\ ShouldMerge(tokens[i], tokens[i + 1], vocab)
         THEN VocabLoop(tokens, i + 2,
                        Append(normalized_tokens, tokens[i] \o tokens[i + 1]), vocab)
         ELSE VocabLoop(tokens, i + 1,
                        normalized_tokens \o SplitToken(tokens[i], vocab), vocab)

NormalizeWithVocabulary(t, vocab) ==
    Join(VocabLoop(Split(t), 1, <<>>, vocab), <<SP>>)

\* the conditions of lines 166 and 170
RulesStageOn(ur, rs) == ur /\ rs # <<>>

VocabStageOn(uv, vocab) == uv /\ DOMAIN vocab # {}

\* a variant that runs the table-driven stages whatever the flags say
AfterStageIgnoringFlags(p, ur, rs, uv, vocab) ==
    CASE p = "unicode" -> "punct"
      [] p = "punct" -> "numerals"
      [] p = "numerals" -> IF rs # <<>> THEN "rules"
                           ELSE IF DOMAIN vocab # {} THEN "vocab" ELSE "ws"
      [] p = "rules" -> IF DOMAIN vocab # {} THEN "vocab" ELSE "ws"
      [] p = "vocab" -> "ws"
      [] p = "ws" -> "done"

\* a variant that runs the vocabulary stage before the rule stage
AfterStageVocabularyFirst(p, ur, rs, uv, vocab) ==
    CASE p = "unicode" -> "punct"
      [] p = "punct" -> "numerals"
      [] p = "numerals" -> IF VocabStageOn(uv, vocab) THEN "vocab"
                           ELSE IF RulesStageOn(ur, rs) THEN "rules" ELSE "ws"
      [] p = "vocab" -> IF RulesStageOn(ur, rs) THEN "rules" ELSE "ws"
      [] p = "rules" -> "ws"
      [] p = "ws" -> "done"

\* the statement normalize executes after the stage at position p
AfterStage(p, ur, rs, uv, vocab) ==
    CASE p = "unicode" -> "punct"
      [] p = "punct" -> "numerals"
      [] p = "numerals" -> IF RulesStageOn(ur, rs) THEN "rules"
                           ELSE IF VocabStageOn(uv, vocab) THEN "vocab" ELSE "ws"
      [] p = "rules" -> IF VocabStageOn(uv, vocab) THEN "vocab" ELSE "ws"
      [] p = "vocab" -> "ws"
      [] p = "ws" -> "done"

\* None, which is no str
NONE == <<-1>>

\* a variant of the test that takes the empty string only
FalsyEmptyOnly(t) == t = <<>>

\* line 153: `not text`
Falsy(t) == t = <<>> \/ t = NONE

\* normalize as one function of its arguments and the tables
Normalize(t, uv, ur, vocab, rs, rm) ==
    IF Falsy(t) THEN t
    ELSE LET s3 == NormalizeNumerals(NormalizePunctuation(NormalizeUnicode(t)))
             s4 == IF RulesStageOn(ur, rs) THEN ApplyRules(s3, rm) ELSE s3
             s5 == IF VocabStageOn(uv, vocab) THEN NormalizeWithVocabulary(s4, vocab) ELSE s4
         IN  NormalizeWhitespace(s5)

(***************************************************************************)
(* CorpusBasedNormalizer: inputs                                           *)
(***************************************************************************)
WordAlphabet == {KA, MA, SP}

SymAlphabet == {KA, SP, TAB, E_SIGN, LEN_MARK, EN_DASH, KN_ONE}

Texts == StrUpTo(WordAlphabet, MaxLen) \cup StrUpTo(SymAlphabet, MaxSymLen)

\* a record of normalization_rules.json; confidence is the float
\* target_freq / max(source_freq, 1), held as <<numerator, denominator>>
Rule(source, target, sf, tf) ==
    [source |-> source, target |-> target, source_freq |-> sf,
     target_freq |-> tf, confidence |-> <<tf, Max2(sf, 1)>>]

\* normalization_rules.json files: no rule; the single rule "A B" -> "AB";
\* a compound -> spaced rule followed by a spaced -> compound rule
RuleFiles ==
    { <<>>,
      << Rule(<<KA, SP, MA>>, <<KA, MA>>, 4, 20) >>,
      << Rule(<<KA, SP, KA>>, <<KA, KA>>, 4, 20) >>,
      << Rule(<<MA, MA, KA>>, <<MA, SP, MA, KA>>, 2, 12),
         Rule(<<KA, SP, E_SIGN>>, <<KA, E_SIGN>>, 5, 10) >> }

\* vocabulary.json files
VocabFiles ==
    { EmptyDict,
      (<<KA, MA>> :> 40) @@ (<<KA>> :> 3) @@ (<<MA>> :> 100) @@ (<<MA, KA>> :> 25)
         @@ (<<KA, MA, MA>> :> 500) @@ (<<KA, E_SIGN>> :> 12) }

MaxRuleLoads == 1

(***************************************************************************)
(* CorpusBasedNormalizer: operations                                       *)
(***************************************************************************)
\* lines 38-39: rule_map[rule['source']] = rule['target'], a dict assignment
DictSet(rm, k, v) ==
    IF \E n \in 1..Len(rm) : rm[n][1] = k
    THEN [n \in 1..Len(rm) |-> IF rm[n][1] = k THEN <<k, v>> ELSE rm[n]]
    ELSE Append(rm, <<k, v>>)

\* a variant that keeps the first target seen for a source
RECURSIVE BuildRuleMapFirstWins(_, _)
BuildRuleMapFirstWins(rm, rs) ==
    IF rs = <<>> THEN rm
    ELSE BuildRuleMapFirstWins(
             IF \E n \in 1..Len(rm) : rm[n][1] = rs[1].source
             THEN rm ELSE Append(rm, <<rs[1].source, rs[1].target>>), Tail(rs))

RECURSIVE BuildRuleMap(_, _)
BuildRuleMap(rm, rs) ==
    IF rs = <<>> THEN rm
    ELSE BuildRuleMap(DictSet(rm, rs[1].source, rs[1].target), Tail(rs))

LoadVocabulary ==
    /\ pc = "idle"
    /\ \E file \in VocabFiles : vocabulary' = file
    /\ UNCHANGED <<rules, rule_map, loads, text, use_vocab, use_rules,
                   cur, prev, trace, out, pc, pass, orig, anlVars, pnVars, extVars>>

LoadRules ==
    /\ pc = "idle"
    /\ loads < MaxRuleLoads
    /\ \E file \in RuleFiles :
          /\ rules' = file
          /\ rule_map' = BuildRuleMap(rule_map, file)
    /\ loads' = loads + 1
    /\ UNCHANGED <<vocabulary, text, use_vocab, use_rules,
                   cur, prev, trace, out, pc, pass, orig, anlVars, pnVars, extVars>>

\* lines 141-154: entry of normalize, with the early return on empty text
Enter(t, uv, ur, p) ==
    /\ text' = t
    /\ use_vocab' = uv
    /\ use_rules' = ur
    /\ pass' = p
    /\ orig' = (IF p = 1 THEN t ELSE orig)
    /\ trace' = <<>>
    /\ prev' = <<>>
    /\ IF Falsy(t)
       THEN cur' = <<>> /\ out' = t /\ pc' = "done"
       ELSE cur' = t /\ out' = <<>> /\ pc' = "unicode"
    /\ UNCHANGED <<vocabulary, rules, rule_map, loads, anlVars, pnVars, extVars>>

Call ==
    /\ pc = "idle"
    /\ \E t \in Texts, uv \in BOOLEAN, ur \in BOOLEAN : Enter(t, uv, ur, 1)

\* the caller normalizes the string it just got back, with the same flags
CallAgain ==
    /\ pc = "done"
    /\ pass = 1
    /\ Enter(out, use_vocab, use_rules, 2)

Stage(p, result) ==
    /\ pc = p
    /\ prev' = cur
    /\ cur' = result
    /\ trace' = Append(trace, p)
    /\ pc' = AfterStage(p, use_rules, rules, use_vocab, vocabulary)
    /\ out' = IF p = "ws" THEN result ELSE out
    /\ UNCHANGED <<vocabulary, rules, rule_map, loads, text, use_vocab, use_rules,
                   pass, orig, anlVars, pnVars, extVars>>

StepUnicode == Stage("unicode", NormalizeUnicode(cur))

StepPunctuation == Stage("punct", NormalizePunctuation(cur))

StepNumerals == Stage("numerals", NormalizeNumerals(cur))

\* a variant of the rule stage that consumes the rule map it applies
StepRulesConsumingMap ==
    /\ pc = "rules"
    /\ prev' = cur
    /\ cur' = ApplyRules(cur, rule_map)
    /\ trace' = Append(trace, "rules")
    /\ pc' = AfterStage("rules", use_rules, rules, use_vocab, vocabulary)
    /\ rule_map' = <<>>
    /\ UNCHANGED <<out, vocabulary, rules, loads, text, use_vocab, use_rules,
                   pass, orig, anlVars, pnVars, extVars>>

StepRules == Stage("rules", ApplyRules(cur, rule_map))

StepVocabulary == Stage("vocab", NormalizeWithVocabulary(cur, vocabulary))

StepWhitespace == Stage("ws", NormalizeWhitespace(cur))

\* the caller drops the result
Return ==
    /\ pc = "done"
    /\ pc' = "idle"
    /\ text' = <<>> /\ cur' = <<>> /\ prev' = <<>> /\ out' = <<>> /\ trace' = <<>>
    /\ use_vocab' = TRUE /\ use_rules' = TRUE /\ pass' = 1 /\ orig' = <<>>
    /\ UNCHANGED <<vocabulary, rules, rule_map, loads, anlVars, pnVars, extVars>>

InitNormalizer ==
    /\ vocabulary = EmptyDict
    /\ rules = <<>>
    /\ rule_map = <<>>
    /\ loads = 0
    /\ text = <<>> /\ cur = <<>> /\ prev = <<>> /\ out = <<>> /\ trace = <<>>
    /\ use_vocab = TRUE /\ use_rules = TRUE /\ pass = 1 /\ orig = <<>>
    /\ pc = "idle"

(***************************************************************************)
(* CorpusAnalyzer                                                          *)
(***************************************************************************)
\* a Counter / dict held in insertion order: lookups and updates
RECURSIVE ODGet(_, _, _)
ODGet(d, k, default) ==
    IF d = <<>> THEN default
    ELSE IF d[1][1] = k THEN d[1][2] ELSE ODGet(Tail(d), k, default)

ODHas(d, k) == \E n \in 1..Len(d) : d[n][1] = k

ODKeys(d) == {d[n][1] : n \in 1..Len(d)}

\* Counter.update on one element, n times
CounterAdd(d, k, n) == DictSet(d, k, ODGet(d, k, 0) + n)

RECURSIVE CounterUpdate(_, _, _)
CounterUpdate(d, items, n) ==
    IF items = <<>> THEN d
    ELSE CounterUpdate(CounterAdd(d, items[1], n), Tail(items), n)

IsKannadaChar(c) == c >= KN_LO /\ c <= KN_HI

\* re.findall(r'[ಀ-೿]+', text): the maximal runs of Kannada characters
RECURSIVE FindKannadaRuns(_, _, _)
FindKannadaRuns(s, word, acc) ==
    IF s = <<>> THEN (IF word = <<>> THEN acc ELSE Append(acc, word))
    ELSE IF IsKannadaChar(Head(s))
         THEN FindKannadaRuns(Tail(s), Append(word, Head(s)), acc)
         ELSE FindKannadaRuns(Tail(s), <<>>, IF word = <<>> THEN acc ELSE Append(acc, word))

Tokenize(t) == FindKannadaRuns(NFC(t), <<>>, <<>>)

\* zip(tokens[:-1], tokens[1:]) and zip(tokens[:-2], tokens[1:-1], tokens[2:])
Bigrams(tokens) == [k \in 1..(Len(tokens) - 1) |-> <<tokens[k], tokens[k + 1]>>]

Trigrams(tokens) ==
    [k \in 1..(Len(tokens) - 2) |-> <<tokens[k], tokens[k + 1], tokens[k + 2]>>]

\* a variant that counts each word of a line once
CountLinesWordsOnce(tables, line, n) ==
    LET tokens == Tokenize(Strip(line))
        first == SelectSeq([k \in 1..Len(tokens) |-> <<k, tokens[k]>>],
                           LAMBDA e : \A h \in 1..(e[1] - 1) : tokens[h] # e[2])
    IN  [wf |-> CounterUpdate(tables.wf, [k \in 1..Len(first) |-> first[k][2]], n),
         bf |-> IF Len(tokens) >= 2
                THEN CounterUpdate(tables.bf, Bigrams(tokens), n) ELSE tables.bf,
         tf |-> IF Len(tokens) >= 3
                THEN CounterUpdate(tables.tf, Trigrams(tokens), n) ELSE tables.tf]

\* lines 46-59 for n consecutive copies of one line
CountLines(tables, line, n) ==
    LET tokens == Tokenize(Strip(line))
    IN  [wf |-> CounterUpdate(tables.wf, tokens, n),
         bf |-> IF Len(tokens) >= 2
                THEN CounterUpdate(tables.bf, Bigrams(tokens), n) ELSE tables.bf,
         tf |-> IF Len(tokens) >= 3
                THEN CounterUpdate(tables.tf, Trigrams(tokens), n) ELSE tables.tf]

\* lines 40-61: the loop over the lines of the file. The file is a sequence
\* of runs <<line, n>>, n >= 1 consecutive copies of a line; max_lines = 0
\* stands for both None and 0, which the test of line 43 treats alike
RECURSIVE ScanRuns(_, _, _, _)
ScanRuns(runs, line_count, max_lines, tables) ==
    IF runs = <<>> THEN tables
    ELSE LET line == runs[1][1]
             n == runs[1][2]
             take == IF max_lines # 0
                     THEN Min2(n, Max2(max_lines - line_count, 0)) ELSE n
         IN  IF take = 0 THEN tables
             ELSE IF take < n THEN CountLines(tables, line, take)
             ELSE ScanRuns(Tail(runs), line_count + n, max_lines,
                           CountLines(tables, line, n))

\* Counter.most_common(): sorted by count, descending, equal counts in
\* insertion order
RECURSIVE InsertByCount(_, _)
InsertByCount(sorted, item) ==
    IF sorted = <<>> THEN <<item>>
    ELSE IF sorted[1][2] >= item[2]
         THEN <<sorted[1]>> \o InsertByCount(Tail(sorted), item)
         ELSE <<item>> \o sorted

RECURSIVE MostCommonAcc(_, _)
MostCommonAcc(d, sorted) ==
    IF d = <<>> THEN sorted ELSE MostCommonAcc(Tail(d), InsertByCount(sorted, d[1]))

MostCommon(d) == MostCommonAcc(d, <<>>)

\* list.append on variations[key], a defaultdict(list)
ListDictAppend(d, k, v) == DictSet(d, k, Append(ODGet(d, k, <<>>), v))

\* tuple(sorted([a, b]))
SortedPair(a, b) == IF StrLess(b, a) THEN <<b, a>> ELSE <<a, b>>

MIN_COMPOUND_LEN == 4

\* a variant that reports a split whatever the count of its bigram
RECURSIVE TrySplitsWithoutBigramGate(_, _, _, _, _, _, _)
TrySplitsWithoutBigramGate(word, freq, i, min_freq, wf, bf, acc) ==
    IF i > Len(word) - 2 THEN acc
    ELSE LET part1 == SubSeq(word, 1, i)
             part2 == SubSeq(word, i + 1, Len(word))
             bigram == ODGet(bf, <<part1, part2>>, 0)
             spaced_form == part1 \o <<SP>> \o part2
             var == [compound |-> word, spaced |-> spaced_form,
                     compound_freq |-> freq, spaced_freq |-> bigram,
                     part1 |-> part1, part2 |-> part2]
         IN  IF ODHas(wf, part1) /\ ODHas(wf, part2)
             THEN TrySplitsWithoutBigramGate(word, freq, i + 1, min_freq, wf, bf,
                            ListDictAppend(acc, SortedPair(word, spaced_form), var))
             ELSE TrySplitsWithoutBigramGate(word, freq, i + 1, min_freq, wf, bf, acc)

\* lines 89-113: the split points of one word
RECURSIVE TrySplits(_, _, _, _, _, _, _)
TrySplits(word, freq, i, min_freq, wf, bf, acc) ==
    IF i > Len(word) - 2 THEN acc
    ELSE LET part1 == SubSeq(word, 1, i)
             part2 == SubSeq(word, i + 1, Len(word))
             bigram == ODGet(bf, <<part1, part2>>, 0)
             spaced_form == part1 \o <<SP>> \o part2
             var == [compound |-> word, spaced |-> spaced_form,
                     compound_freq |-> freq, spaced_freq |-> bigram,
                     part1 |-> part1, part2 |-> part2]
         IN  IF ODHas(wf, part1) /\ ODHas(wf, part2) /\ bigram >= min_freq
             THEN TrySplits(word, freq, i + 1, min_freq, wf, bf,
                            ListDictAppend(acc, SortedPair(word, spaced_form), var))
             ELSE TrySplits(word, freq, i + 1, min_freq, wf, bf, acc)

\* lines 80-113: the loop over word_freq.most_common()
RECURSIVE FindLoop(_, _, _, _, _)
FindLoop(words, min_freq, wf, bf, acc) ==
    IF words = <<>> THEN acc
    ELSE LET word == words[1][1]
             freq == words[1][2]
         IN  IF freq < min_freq \/ Len(word) < MIN_COMPOUND_LEN
             THEN FindLoop(Tail(words), min_freq, wf, bf, acc)
             ELSE FindLoop(Tail(words), min_freq, wf, bf,
                           TrySplits(word, freq, 2, min_freq, wf, bf, acc))

FindCompoundVariationsOf(min_freq, wf, bf) ==
    FindLoop(MostCommon(wf), min_freq, wf, bf, <<>>)

\* a float ratio is held as <<numerator, denominator>>, denominator >= 1
RatioGreater(r1, r2) == r1[1] * r2[2] > r2[1] * r1[2]

\* the 1.5 of line 140, as 3/2
MIN_RATIO_NUM == 3

MIN_RATIO_DEN == 2

\* a variant that makes a rule of every variation with unequal frequencies
RuleOfVariationAnyRatio(var) ==
    LET compound_more == var.compound_freq > var.spaced_freq
        source == IF compound_more THEN var.spaced ELSE var.compound
        target == IF compound_more THEN var.compound ELSE var.spaced
        freq_ratio == IF compound_more
                      THEN <<var.compound_freq, Max2(var.spaced_freq, 1)>>
                      ELSE <<var.spaced_freq, Max2(var.compound_freq, 1)>>
    IN  IF RatioGreater(freq_ratio, <<1, 1>>)
        THEN << [source |-> source,
                 target |-> target,
                 source_freq |-> IF source = var.compound
                                 THEN var.compound_freq ELSE var.spaced_freq,
                 target_freq |-> IF target = var.spaced
                                 THEN var.spaced_freq ELSE var.compound_freq,
                 confidence |-> freq_ratio] >>
        ELSE <<>>

\* a variant whose rules rewrite the more frequent form to the rarer one
RuleOfVariationTowardsRare(var) ==
    LET compound_more == var.compound_freq > var.spaced_freq
        source == IF compound_more THEN var.compound ELSE var.spaced
        target == IF compound_more THEN var.spaced ELSE var.compound
        freq_ratio == IF compound_more
                      THEN <<var.compound_freq, Max2(var.spaced_freq, 1)>>
                      ELSE <<var.spaced_freq, Max2(var.compound_freq, 1)>>
    IN  IF RatioGreater(freq_ratio, <<MIN_RATIO_NUM, MIN_RATIO_DEN>>)
        THEN << [source |-> source,
                 target |-> target,
                 source_freq |-> IF source = var.compound
                                 THEN var.compound_freq ELSE var.spaced_freq,
                 target_freq |-> IF target = var.spaced
                                 THEN var.spaced_freq ELSE var.compound_freq,
                 confidence |-> freq_ratio] >>
        ELSE <<>>

\* lines 127-147: the rule of one variation, <<>> when the ratio is too low
RuleOfVariation(var) ==
    LET compound_more == var.compound_freq > var.spaced_freq
        source == IF compound_more THEN var.spaced ELSE var.compound
        target == IF compound_more THEN var.compound ELSE var.spaced
        freq_ratio == IF compound_more
                      THEN <<var.compound_freq, Max2(var.spaced_freq, 1)>>
                      ELSE <<var.spaced_freq, Max2(var.compound_freq, 1)>>
    IN  IF RatioGreater(freq_ratio, <<MIN_RATIO_NUM, MIN_RATIO_DEN>>)
        THEN << [source |-> source,
                 target |-> target,
                 source_freq |-> IF source = var.compound
                                 THEN var.compound_freq ELSE var.spaced_freq,
                 target_freq |-> IF target = var.spaced
                                 THEN var.spaced_freq ELSE var.compound_freq,
                 confidence |-> freq_ratio] >>
        ELSE <<>>

RECURSIVE RulesOfList(_)
RulesOfList(var_list) ==
    IF var_list = <<>> THEN <<>>
    ELSE RuleOfVariation(var_list[1]) \o RulesOfList(Tail(var_list))

RECURSIVE RulesOfVariations(_)
RulesOfVariations(vs) ==
    IF vs = <<>> THEN <<>>
    ELSE RulesOfList(vs[1][2]) \o RulesOfVariations(Tail(vs))

\* rules.sort(key=confidence, reverse=True): stable
RECURSIVE InsertByConfidence(_, _)
InsertByConfidence(sorted, rule) ==
    IF sorted = <<>> THEN <<rule>>
    ELSE IF RatioGreater(rule.confidence, sorted[1].confidence)
         THEN <<rule>> \o sorted
         ELSE <<sorted[1]>> \o InsertByConfidence(Tail(sorted), rule)

RECURSIVE SortByConfidence(_, _)
SortByConfidence(rs, sorted) ==
    IF rs = <<>> THEN sorted
    ELSE SortByConfidence(Tail(rs), InsertByConfidence(sorted, rs[1]))

GetNormalizationRulesOf(vs) == SortByConfidence(RulesOfVariations(vs), <<>>)

(***************************************************************************)
(* CorpusAnalyzer: inputs                                                  *)
(***************************************************************************)
FOO == <<KA, KA>>

BAR == <<KA, KA, KA>>

FOOBAR == FOO \o BAR

\* lines of a corpus file
CorpusLines ==
    { BAR \o <<SP>> \o FOO,
      FOOBAR,
      <<SP>> \o BAR \o <<SP>> \o FOO \o <<HYPHEN>> \o BAR \o <<TAB>> \o FOOBAR }

MaxFileLines == 2

MaxScans == 1

\* a corpus with FOO and BAR each 20 times, FOOBAR 15 times and the
\* bigram (FOO, BAR) k times
SyntheticCorpus(k) ==
    << <<FOO \o <<SP>> \o BAR, k>>, <<FOO, 20 - k>>, <<BAR, 20 - k>>, <<FOOBAR, 15>> >>

CorpusFiles ==
    { [n \in 1..Len(ls) |-> <<ls[n], 1>>] : ls \in StrUpTo(CorpusLines, MaxFileLines) }
        \cup {SyntheticCorpus(2), SyntheticCorpus(12)}

MinFreqs == {0, 1, 2, 10}

(***************************************************************************)
(* CorpusAnalyzer: operations                                              *)
(***************************************************************************)
AnalyzeFile ==
    /\ scans < MaxScans
    /\ \E file \in CorpusFiles, max_lines \in 0..MaxFileLines :
          LET tables == ScanRuns(file, 0, max_lines,
                                 [wf |-> word_freq, bf |-> bigram_freq, tf |-> trigram_freq])
          IN  /\ word_freq' = tables.wf
              /\ bigram_freq' = tables.bf
              /\ trigram_freq' = tables.tf
    /\ scans' = scans + 1
    /\ aphase' = "scan"
    /\ variations' = <<>>
    /\ found_min_freq' = 0
    /\ anl_rules' = <<>>
    /\ UNCHANGED <<normVars, pnVars, extVars>>

FindCompoundVariations ==
    /\ aphase = "scan"
    /\ \E min_freq \in MinFreqs :
          /\ variations' = FindCompoundVariationsOf(min_freq, word_freq, bigram_freq)
          /\ found_min_freq' = min_freq
    /\ aphase' = "found"
    /\ UNCHANGED <<word_freq, bigram_freq, trigram_freq, scans, anl_rules, normVars, pnVars, extVars>>

GetNormalizationRules ==
    /\ aphase = "found"
    /\ anl_rules' = GetNormalizationRulesOf(variations)
    /\ aphase' = "ruled"
    /\ UNCHANGED <<word_freq, bigram_freq, trigram_freq, scans, variations,
                   found_min_freq, normVars, pnVars, extVars>>

InitAnalyzer ==
    /\ word_freq = <<>>
    /\ bigram_freq = <<>>
    /\ trigram_freq = <<>>
    /\ scans = 0
    /\ variations = <<>>
    /\ found_min_freq = 0
    /\ anl_rules = <<>>
    /\ aphase = "scan"

NextAnalyzer ==
    \/ AnalyzeFile
    \/ FindCompoundVariations
    \/ GetNormalizationRules

(***************************************************************************)
(* Proper-noun handling: extract_from_predictions.py                       *)
(***************************************************************************)
RECURSIVE SeqMin(_)
SeqMin(q) == IF Len(q) = 1 THEN q[1] ELSE Min2(q[1], SeqMin(Tail(q)))

\* lines 21-26: one row of the distance table
RECURSIVE LevRow(_, _, _, _, _)
LevRow(s1, c2, distances, k, new_distances) ==
    IF k > Len(s1) THEN new_distances
    ELSE LevRow(s1, c2, distances, k + 1,
                Append(new_distances,
                       IF s1[k] = c2 THEN distances[k]
                       ELSE 1 + Min2(Min2(distances[k], distances[k + 1]),
                                     new_distances[Len(new_distances)])))

\* a variant whose row test gives up already at a minimum of max_dist
RECURSIVE LevLoopStoppingAtMaxDist(_, _, _, _, _)
LevLoopStoppingAtMaxDist(s1, s2, i2, distances, max_dist) ==
    IF i2 > Len(s2) THEN distances[Len(distances)]
    ELSE LET new_distances == LevRow(s1, s2[i2], distances, 1, <<i2>>)
         IN  IF SeqMin(new_distances) >= max_dist THEN max_dist + 1
             ELSE LevLoopStoppingAtMaxDist(s1, s2, i2 + 1, new_distances, max_dist)

\* lines 20-33
RECURSIVE LevLoop(_, _, _, _, _)
LevLoop(s1, s2, i2, distances, max_dist) ==
    IF i2 > Len(s2) THEN distances[Len(distances)]
    ELSE LET new_distances == LevRow(s1, s2[i2], distances, 1, <<i2>>)
         IN  IF SeqMin(new_distances) > max_dist THEN max_dist + 1
             ELSE LevLoop(s1, s2, i2 + 1, new_distances, max_dist)

LevenshteinDistance(a, b, max_dist) ==
    IF Len(a) - Len(b) > max_dist \/ Len(b) - Len(a) > max_dist THEN max_dist + 1
    ELSE LET s1 == IF Len(a) > Len(b) THEN b ELSE a
             s2 == IF Len(a) > Len(b) THEN a ELSE b
         IN  LevLoop(s1, s2, 1, [k \in 1..(Len(s1) + 1) |-> k - 1], max_dist)

MAX_DIST == 3

MAX_EXAMPLES == 3

\* str.split(sep) for a one-character separator
RECURSIVE SplitOn(_, _, _, _)
SplitOn(s, sep, part, acc) ==
    IF s = <<>> THEN Append(acc, part)
    ELSE IF Head(s) = sep THEN SplitOn(Tail(s), sep, <<>>, Append(acc, part))
    ELSE SplitOn(Tail(s), sep, Append(part, Head(s)), acc)

\* lines 51-65: the positions zip(ref_words, hyp_words) compares. The dict
\* maps the key "ref|hyp" to <<count, number of examples kept>>
RECURSIVE ComparePositions(_, _, _, _)
ComparePositions(ref_words, hyp_words, k, acc) ==
    IF k > Min2(Len(ref_words), Len(hyp_words)) THEN acc
    ELSE LET ref_w == ref_words[k]
             hyp_w == hyp_words[k]
             dist == LevenshteinDistance(ref_w, hyp_w, MAX_DIST)
             key == ref_w \o <<PIPE>> \o hyp_w
             old == ODGet(acc, key, <<0, 0>>)
         IN  IF ref_w # hyp_w /\ 0 < dist /\ dist <= MAX_DIST
             THEN ComparePositions(ref_words, hyp_words, k + 1,
                      DictSet(acc, key, <<old[1] + 1, Min2(old[2] + 1, MAX_EXAMPLES)>>))
             ELSE ComparePositions(ref_words, hyp_words, k + 1, acc)

\* lines 45-65: the loop over the prediction records
RECURSIVE CollectMismatches(_, _)
CollectMismatches(predictions, acc) ==
    IF predictions = <<>> THEN acc
    ELSE CollectMismatches(Tail(predictions),
             ComparePositions(Split(predictions[1].ground_truth),
                              Split(predictions[1].prediction), 1, acc))

\* lines 70-81; `ref_word, hyp_word = key.split('|')` raises ValueError
\* unless the key has exactly two parts
RECURSIVE InsertByMismatchCount(_, _)
InsertByMismatchCount(sorted, item) ==
    IF sorted = <<>> THEN <<item>>
    ELSE IF sorted[1].count >= item.count
         THEN <<sorted[1]>> \o InsertByMismatchCount(Tail(sorted), item)
         ELSE <<item>> \o sorted

RECURSIVE MismatchList(_, _)
MismatchList(d, sorted) ==
    IF d = <<>> THEN sorted
    ELSE LET parts == SplitOn(d[1][1], PIPE, <<>>, <<>>)
             rec == [ref_word |-> parts[1], hyp_word |-> parts[2],
                     count |-> d[1][2][1],
                     edit_distance |-> LevenshteinDistance(parts[1], parts[2], MAX_DIST),
                     examples |-> d[1][2][2],
                     ref_in_corpus |-> FALSE, hyp_in_corpus |-> FALSE,
                     both_in_corpus |-> FALSE, recommendation |-> "NONE"]
         IN  MismatchList(Tail(d), InsertByMismatchCount(sorted, rec))

KeysUnpack(d) ==
    \A n \in 1..Len(d) : Len(SplitOn(d[n][1], PIPE, <<>>, <<>>)) = 2

\* a variant that stops one line short of max_lines
RECURSIVE ScanCorpusOneShort(_, _, _, _, _)
ScanCorpusOneShort(lines, line_count, max_lines, words_to_check, word_exists) ==
    IF lines = <<>> THEN word_exists
    ELSE IF line_count + 1 >= max_lines THEN word_exists
    ELSE LET tokens == Split(Strip(lines[1]))
         IN  ScanCorpusOneShort(Tail(lines), line_count + 1, max_lines, words_to_check,
                        word_exists \cup
                            ({tokens[k] : k \in 1..Len(tokens)} \cap words_to_check))

\* lines 101-116: the words of words_to_check seen in the scanned lines
RECURSIVE ScanCorpus(_, _, _, _, _)
ScanCorpus(lines, line_count, max_lines, words_to_check, word_exists) ==
    IF lines = <<>> THEN word_exists
    ELSE IF line_count + 1 > max_lines THEN word_exists
    ELSE LET tokens == Split(Strip(lines[1]))
         IN  ScanCorpus(Tail(lines), line_count + 1, max_lines, words_to_check,
                        word_exists \cup
                            ({tokens[k] : k \in 1..Len(tokens)} \cap words_to_check))

\* lines 129-137
Recommend(ref_in_corpus, hyp_in_corpus) ==
    IF ref_in_corpus /\ hyp_in_corpus THEN "ACCEPT_BOTH"
    ELSE IF ~ref_in_corpus /\ hyp_in_corpus THEN "PREFER_HYP"
    ELSE IF ref_in_corpus /\ ~hyp_in_corpus THEN "PREFER_REF"
    ELSE "MANUAL_REVIEW"

ValidateAgainstCorpusOf(ms, lines, max_lines) ==
    LET words_to_check == {ms[n].ref_word : n \in 1..Len(ms)}
                              \cup {ms[n].hyp_word : n \in 1..Len(ms)}
        word_exists == ScanCorpus(lines, 0, max_lines, words_to_check, {})
    IN  [n \in 1..Len(ms) |->
            [ms[n] EXCEPT !.ref_in_corpus = (ms[n].ref_word \in word_exists),
                          !.hyp_in_corpus = (ms[n].hyp_word \in word_exists),
                          !.both_in_corpus = (ms[n].ref_word \in word_exists
                                                /\ ms[n].hyp_word \in word_exists),
                          !.recommendation =
                              Recommend(ms[n].ref_word \in word_exists,
                                        ms[n].hyp_word \in word_exists)]]

EndsWith(s, suffix) ==
    Len(suffix) <= Len(s) /\ SubSeq(s, Len(s) - Len(suffix) + 1, Len(s)) = suffix

\* lines 170-180
HasProperNounPattern(word) ==
    \E indicator \in { <<3242, 3265, 3248>>, <<3223, 3263>>, <<3223, 3263, 3248, 3263>>,
                       <<3240, 3223, 3248>>, <<3242, 3231, 3277, 3231, 3235>>,
                       <<3240, 3238, 3263>> } : EndsWith(word, indicator)

\* lines 183-191
KannadaVowels ==
    {3202, 3203, 3262, 3263, 3264, 3265, 3266, 3267, 3268, 3270, 3271, 3272,
     3274, 3275, 3276}

RECURSIVE WithoutVowels(_)
WithoutVowels(w) ==
    IF w = <<>> THEN <<>>
    ELSE IF Head(w) \in KannadaVowels THEN WithoutVowels(Tail(w))
    ELSE <<Head(w)>> \o WithoutVowels(Tail(w))

HasOnlyVowelDifference(w1, w2) == WithoutVowels(w1) = WithoutVowels(w2) /\ w1 # w2

\* lines 194-207
HasConsonantVariation(w1, w2) ==
    \E v \in { << <<3238>>, <<3238, 3277, 3238>> >>, << <<3238, 3277, 3238>>, <<3111>> >>,
               << <<3253>>, <<3253, 3277, 3253>> >>, << <<3223>>, <<3223, 3277, 3223>> >>,
               << <<3236>>, <<3236, 3277, 3236>> >>, << <<3248>>, <<3248, 3277, 3248>> >> } :
        \/ Contains(w1, v[1]) /\ Contains(w2, v[2])
        \/ Contains(w1, v[2]) /\ Contains(w2, v[1])

\* lines 152-165: the category of one mismatch
CategoryOf(m) ==
    IF Contains(m.ref_word, <<SP>>) \/ Contains(m.hyp_word, <<SP>>) THEN "compound_spacing"
    ELSE IF HasOnlyVowelDifference(m.ref_word, m.hyp_word) THEN "vowel_length"
    ELSE IF HasProperNounPattern(m.ref_word) \/ HasProperNounPattern(m.hyp_word)
         THEN "proper_nouns"
    ELSE IF HasConsonantVariation(m.ref_word, m.hyp_word) THEN "consonant_variation"
    ELSE "other"

Categories ==
    <<"proper_nouns", "compound_spacing", "vowel_length", "consonant_variation", "other">>

\* lines 142-167: 'categorized', the lists in the order of the dict's keys
CategorizeMismatches(ms) ==
    [c \in 1..Len(Categories) |->
        SelectSeq(ms, LAMBDA m : CategoryOf(m) = Categories[c])]

(***************************************************************************)
(* ProperNounNormalizer and CombinedNormalizer                             *)
(***************************************************************************)
\* a variant that maps the words of every record, whatever its recommendation
RECURSIVE ProperNounMapOfAnyRecommendation(_, _)
ProperNounMapOfAnyRecommendation(ms, vm) ==
    IF ms = <<>> THEN vm
    ELSE ProperNounMapOfAnyRecommendation(Tail(ms),
             DictSet(DictSet(vm, ms[1].ref_word, ms[1].hyp_word),
                     ms[1].hyp_word, ms[1].ref_word))

\* test_proper_noun_normalization.py lines 23-29
RECURSIVE ProperNounMapOfList(_, _)
ProperNounMapOfList(ms, vm) ==
    IF ms = <<>> THEN vm
    ELSE IF ms[1].recommendation = "ACCEPT_BOTH" /\ ms[1].count >= 1
         THEN ProperNounMapOfList(Tail(ms),
                  DictSet(DictSet(vm, ms[1].ref_word, ms[1].hyp_word),
                          ms[1].hyp_word, ms[1].ref_word))
         ELSE ProperNounMapOfList(Tail(ms), vm)

RECURSIVE ProperNounMapOf(_, _)
ProperNounMapOf(cats, vm) ==
    IF cats = <<>> THEN vm
    ELSE ProperNounMapOf(Tail(cats), ProperNounMapOfList(cats[1], vm))

\* test_combined_normalization.py lines 24-31
RECURSIVE CombinedMapOfList(_, _)
CombinedMapOfList(ms, vm) ==
    IF ms = <<>> THEN vm
    ELSE IF ms[1].recommendation = "ACCEPT_BOTH" /\ ms[1].count >= 1
         THEN LET canonical == StrMin(ms[1].ref_word, ms[1].hyp_word)
              IN  CombinedMapOfList(Tail(ms),
                      DictSet(DictSet(vm, ms[1].ref_word, canonical),
                              ms[1].hyp_word, canonical))
         ELSE CombinedMapOfList(Tail(ms), vm)

RECURSIVE CombinedMapOf(_, _)
CombinedMapOf(cats, vm) ==
    IF cats = <<>> THEN vm
    ELSE CombinedMapOf(Tail(cats), CombinedMapOfList(cats[1], vm))

\* ProperNounNormalizer.normalize_word
NormalizeWord(vm, word) ==
    IF ODHas(vm, word) THEN StrMin(word, ODGet(vm, word, word)) ELSE word

\* CombinedNormalizer.normalize_proper_nouns, one word of its loop
CombinedWord(vm, word) == IF ODHas(vm, word) THEN ODGet(vm, word, word) ELSE word

\* ProperNounNormalizer.normalize
ProperNounNormalize(vm, t) ==
    IF t = <<>> THEN t
    ELSE LET words == Split(Strip(NFC(t)))
         IN  Join([k \in 1..Len(words) |-> NormalizeWord(vm, words[k])], <<SP>>)

(***************************************************************************)
(* Proper-noun handling: inputs                                            *)
(***************************************************************************)
VA == <<KA>>

VB == <<MA>>

VE == <<KA, E_SIGN>>

VLONG == <<MA, MA, MA, MA, MA>>

VWords == {VA, VB, VE}

\* transcripts of one or two words, and one of a long word
Sentences ==
    VWords \cup {a \o <<SP>> \o b : a \in VWords, b \in VWords} \cup {VLONG}

PredictionItems ==
    {[ground_truth |-> g, prediction |-> h] : g \in Sentences, h \in Sentences}

MaxPreds == 1

MaxCorpusLines == 2

MaxTextWords == 2

ValidationLines == {VA, VB, <<SP>> \o VE \o <<TAB>> \o VA}

\* the words a text to normalize is made of; the last is not in NFC form
TextWords == VWords \cup {<<KA, E_SIGN, LEN_MARK>>}

JoinAll(ws) == Join(ws, <<SP>>)

ProperNounTexts ==
    {JoinAll(ws) : ws \in StrUpTo(TextWords, MaxTextWords)}
        \cup {<<SP>> \o VB \o <<SP, SP>> \o VA}

(***************************************************************************)
(* Proper-noun handling: operations                                        *)
(***************************************************************************)
ExtractMismatchedWords ==
    /\ vphase = "start"
    /\ \E predictions \in StrUpTo(PredictionItems, MaxPreds) :
          LET d == CollectMismatches(predictions, <<>>)
          IN  IF KeysUnpack(d)
              THEN mismatches' = MismatchList(d, <<>>) /\ vphase' = "extracted"
              ELSE mismatches' = <<>> /\ vphase' = "error"
    /\ UNCHANGED <<val_corpus, val_max_lines, categorized, pn_map, pn_loaded,
                   cn_map, cn_loaded, pn_text, pn_out, pn_calls, normVars, anlVars, extVars>>

ValidateAgainstCorpus ==
    /\ vphase = "extracted"
    /\ \E lines \in StrUpTo(ValidationLines, MaxCorpusLines),
          max_lines \in 0..MaxCorpusLines :
          /\ mismatches' = ValidateAgainstCorpusOf(mismatches, lines, max_lines)
          /\ val_corpus' = lines
          /\ val_max_lines' = max_lines
    /\ vphase' = "validated"
    /\ UNCHANGED <<categorized, pn_map, pn_loaded, cn_map, cn_loaded,
                   pn_text, pn_out, pn_calls, normVars, anlVars, extVars>>

\* main() lines 228-267: categorize and write mismatch_analysis.json
SaveAnalysis ==
    /\ vphase = "validated"
    /\ categorized' = CategorizeMismatches(mismatches)
    /\ vphase' = "saved"
    /\ val_corpus' = <<>>
    /\ val_max_lines' = 0
    /\ UNCHANGED <<mismatches, pn_map, pn_loaded, cn_map, cn_loaded,
                   pn_text, pn_out, pn_calls, normVars, anlVars, extVars>>

\* ProperNounNormalizer.__init__
LoadProperNounNormalizer ==
    /\ vphase = "saved"
    /\ ~pn_loaded
    /\ pn_map' = ProperNounMapOf(categorized, <<>>)
    /\ pn_loaded' = TRUE
    /\ UNCHANGED <<mismatches, val_corpus, val_max_lines, categorized, vphase,
                   cn_map, cn_loaded, pn_text, pn_out, pn_calls, normVars, anlVars, extVars>>

\* CombinedNormalizer.__init__, the variant map
\* test_combined_normalization.py:39-42: {r['source']: r for r in self.rules}
RECURSIVE CombinedRuleMapOf(_, _)
CombinedRuleMapOf(rm, rs) ==
    IF rs = <<>> THEN rm
    ELSE CombinedRuleMapOf(DictSet(rm, rs[1].source, rs[1]), Tail(rs))

\* rule.get('prefer_split', False)
PreferSplit(rule) == "prefer_split" \in DOMAIN rule /\ rule.prefer_split

\* lines 51-67, one word of the loop
CompoundWord(rm, word) ==
    IF ODHas(rm, word)
    THEN LET rule == ODGet(rm, word, <<>>)
         IN  IF PreferSplit(rule) THEN rule.split_form ELSE word
    ELSE word

normalize_compounds(rm, t) ==
    LET words == Split(t)
    IN  Join([k \in 1..Len(words) |-> CompoundWord(rm, words[k])], <<SP>>)

\* lines 85-96
normalize_proper_nouns(vm, t) ==
    LET words == Split(t)
    IN  Join([k \in 1..Len(words) |-> CombinedWord(vm, words[k])], <<SP>>)

\* the rules file the CombinedNormalizer reads: two records as
\* get_normalization_rules writes them, and one that carries prefer_split
CombinedRules ==
    << Rule(<<KA, MA>>, <<KA, SP, MA>>, 2, 12),
       Rule(<<KA, SP, KA>>, <<KA, KA>>, 4, 20),
       [source |-> VE, target |-> <<KA, SP, E_SIGN>>, prefer_split |-> TRUE,
        split_form |-> <<KA, SP, E_SIGN>>] >>

CombinedTexts ==
    {JoinAll(ws) : ws \in StrUpTo(TextWords \cup {<<KA, MA>>}, MaxTextWords)}
        \cup {<<SP>> \o VB \o <<SP, SP>> \o <<KA, MA>> \o <<TAB>>, NONE}

LoadCombinedNormalizer ==
    /\ vphase = "saved"
    /\ ~cn_loaded
    /\ cn_map' = CombinedMapOf(categorized, <<>>)
    /\ cn_rule_map' = CombinedRuleMapOf(<<>>, CombinedRules)
    /\ cn_loaded' = TRUE
    /\ UNCHANGED <<mismatches, val_corpus, val_max_lines, categorized, vphase,
                   pn_map, pn_loaded, pn_text, pn_out, pn_calls, normVars, anlVars,
                   toolVars, callVars, cn_text, cn_mid, cn_out, cn_calls>>

\* CombinedNormalizer.normalize, lines 98-112
NormalizeCombined ==
    /\ cn_loaded
    /\ cn_calls = 0
    /\ \E t \in CombinedTexts :
          /\ cn_text' = t
          /\ cn_mid' = (IF Falsy(t) THEN t ELSE normalize_proper_nouns(cn_map, Strip(NFC(t))))
          /\ cn_out' = (IF Falsy(t) THEN t ELSE normalize_compounds(cn_rule_map, cn_mid'))
    /\ cn_calls' = 1
    /\ UNCHANGED <<mismatches, val_corpus, val_max_lines, categorized, vphase,
                   pn_map, pn_loaded, pn_text, pn_out, pn_calls, cn_map, cn_loaded,
                   cn_rule_map, toolVars, callVars, normVars, anlVars>>

\* ProperNounNormalizer.normalize
NormalizeProperNouns ==
    /\ pn_loaded
    /\ pn_calls = 0
    /\ \E t \in ProperNounTexts :
          /\ pn_text' = t
          /\ pn_out' = ProperNounNormalize(pn_map, t)
    /\ pn_calls' = 1
    /\ UNCHANGED <<mismatches, val_corpus, val_max_lines, categorized, vphase,
                   pn_map, pn_loaded, cn_map, cn_loaded, normVars, anlVars, extVars>>

InitProperNouns ==
    /\ mismatches = <<>>
    /\ val_corpus = <<>>
    /\ val_max_lines = 0
    /\ categorized = <<>>
    /\ vphase = "start"
    /\ pn_map = <<>>
    /\ pn_loaded = FALSE
    /\ cn_map = <<>>
    /\ cn_loaded = FALSE
    /\ pn_text = <<>>
    /\ pn_out = <<>>
    /\ pn_calls = 0

NextCombined ==
    \/ ExtractMismatchedWords
    \/ ValidateAgainstCorpus
    \/ SaveAnalysis
    \/ LoadCombinedNormalizer
    \/ NormalizeCombined

NextProperNouns ==
    \/ ExtractMismatchedWords
    \/ ValidateAgainstCorpus
    \/ SaveAnalysis
    \/ LoadProperNounNormalizer
    \/ LoadCombinedNormalizer
    \/ NormalizeProperNouns

(***************************************************************************)
(* apply_normalization.py: the prediction pipeline                         *)
(***************************************************************************)
\* the fused and the spaced form of corpus_analyzer.py:73
KELAVARSHA == <<3221, 3270, 3250, 3253, 3248, 3277, 3255>>

KELAVU == <<3221, 3270, 3250, 3253, 3265>>

VARSHA == <<3253, 3248, 3277, 3255>>

KELAVU_VARSHA == KELAVU \o <<SP>> \o VARSHA

\* the ten Kannada digits of corpus_normalizer.py:68, and "೧೨೩"
KN_DIGITS == [k \in 1..10 |-> KN_ZERO + (k - 1)]

KN_123 == <<KN_ONE, KN_ONE + 1, KN_ONE + 2>>

\* normalization_rules.json as create_normalizer may find it: no rule; the
\* fused -> spaced rule; a rule whose target is a decomposed vowel sign; the
\* two-rule file of RuleFiles
PipelineRuleFiles ==
    { <<>>,
      << Rule(KELAVARSHA, KELAVU_VARSHA, 3, 40) >>,
      << Rule(<<KA, E_SIGN, SP, LEN_MARK>>, <<KA, E_SIGN, LEN_MARK>>, 1, 5) >>,
      << Rule(<<MA, MA, KA>>, <<MA, SP, MA, KA>>, 2, 12),
         Rule(<<KA, SP, E_SIGN>>, <<KA, E_SIGN>>, 5, 10) >> }

\* vocabulary.json as create_normalizer may find it: the files of VocabFiles
\* and one that holds the two words and their concatenation
PipelineVocabFiles ==
    VocabFiles \cup
    { (KELAVU :> 30) @@ (VARSHA :> 50) @@ ((KELAVU \o VARSHA) :> 200) }

\* predictions.json files
PredictionFiles ==
    { << [ground_truth |-> KELAVU_VARSHA, prediction |-> KELAVARSHA] >>,
      << [ground_truth |-> KN_DIGITS, prediction |-> KN_123] >>,
      << [ground_truth |-> <<KA, E_SIGN, SP, LEN_MARK>>, prediction |-> <<KA, EE_SIGN>>],
         [ground_truth |-> <<MA, MA, KA, TAB, MA>>] >>,
      << [prediction |-> <<SP, KA, EN_DASH, MA>>],
         [ground_truth |-> <<>>, prediction |-> <<KA, SP, MA>>] >> }

\* the texts of the direct normalize calls
CorpusCallTexts ==
    { <<>>, NONE, KN_DIGITS, KN_123, <<KA, KN_ONE, SP, KN_ZERO + 9>>,
      KELAVARSHA, KELAVU_VARSHA,
      <<KA, E_SIGN, SP, LEN_MARK>>, <<KA, E_SIGN, LEN_MARK>>,
      <<SP, MA, MA, KA, TAB, SP, KA, EM_DASH, MA, SP>>,
      <<LDQUOTE, KA, RDQUOTE>>, <<LSQUOTE, KA, RSQUOTE, SP, EN_DASH, MINUS_SIGN>>,
      <<DQUOTE, KA, SQUOTE, HYPHEN>> }

\* a variant that falls back to a default file when one is missing
CreateNormalizerWithFallback ==
    /\ ~created
    /\ pc = "idle"
    /\ \E ve \in BOOLEAN, re \in BOOLEAN,
          vfile \in PipelineVocabFiles, rfile \in PipelineRuleFiles :
          /\ vocab_found' = ve
          /\ rules_found' = re
          /\ vocabulary' = vfile
          /\ rules' = rfile
          /\ rule_map' = BuildRuleMap(<<>>, rfile)
    /\ created' = TRUE
    /\ UNCHANGED <<loads, text, use_vocab, use_rules, cur, prev, trace, out, pc,
                   pass, orig, pred_data, pred_norm, callVars, cmbVars,
                   anlVars, pnVars>>

\* corpus_normalizer.py:179-200
CreateNormalizer ==
    /\ ~created
    /\ pc = "idle"
    /\ \E ve \in BOOLEAN, re \in BOOLEAN,
          vfile \in PipelineVocabFiles, rfile \in PipelineRuleFiles :
          /\ vocab_found' = ve
          /\ rules_found' = re
          /\ vocabulary' = (IF ve THEN vfile ELSE EmptyDict)
          /\ rules' = (IF re THEN rfile ELSE <<>>)
          /\ rule_map' = (IF re THEN BuildRuleMap(<<>>, rfile) ELSE <<>>)
    /\ created' = TRUE
    /\ UNCHANGED <<loads, text, use_vocab, use_rules, cur, prev, trace, out, pc,
                   pass, orig, pred_data, pred_norm, callVars, cmbVars,
                   anlVars, pnVars>>

\* apply_normalization.py:16-22
LoadPredictions ==
    /\ pred_data = <<>>
    /\ \E file \in PredictionFiles : pred_data' = file
    /\ UNCHANGED <<created, vocab_found, rules_found, pred_norm, callVars, cmbVars,
                   normVars, anlVars, pnVars>>

\* a variant that normalizes the reference only
NormalizeItemReferenceOnly(item, uv, ur, vocab, rs, rm) ==
    IF "ground_truth" \in DOMAIN item
    THEN ("ground_truth_original" :> item.ground_truth)
         @@ ("ground_truth" :> Normalize(item.ground_truth, uv, ur, vocab, rs, rm))
         @@ item
    ELSE item

\* apply_normalization.py:29-42: the copy of one item with its fields normalized
NormalizeItem(item, uv, ur, vocab, rs, rm) ==
    LET g == IF "ground_truth" \in DOMAIN item
             THEN ("ground_truth_original" :> item.ground_truth)
                  @@ ("ground_truth" :> Normalize(item.ground_truth, uv, ur, vocab, rs, rm))
             ELSE item
        p == IF "prediction" \in DOMAIN item
             THEN ("prediction_original" :> item.prediction)
                  @@ ("prediction" :> Normalize(item.prediction, uv, ur, vocab, rs, rm))
             ELSE item
    IN  g @@ p @@ item

\* apply_normalization.py:25-44, with normalize's default flags
NormalizePredictions ==
    /\ created
    /\ pred_data # <<>>
    /\ pred_norm = <<>>
    /\ pred_norm' = [k \in 1..Len(pred_data) |->
                        NormalizeItem(pred_data[k], TRUE, TRUE, vocabulary, rules, rule_map)]
    /\ UNCHANGED <<created, vocab_found, rules_found, pred_data, callVars, cmbVars,
                   normVars, anlVars, pnVars>>

\* apply_normalization.py:47-63: the word-level edit distance jiwer sums over
\* the (reference, hypothesis) pairs, and the total number of reference words
RECURSIVE WordErrors(_)
WordErrors(data) ==
    IF data = <<>> THEN 0
    ELSE LET ref == Split(Head(data).ground_truth)
             hyp == Split(Head(data).prediction)
         IN  LevenshteinDistance(ref, hyp, Len(ref) + Len(hyp)) + WordErrors(Tail(data))

\* corpus_normalizer.py:141-176 as the list of the stages a call runs
RECURSIVE RunStages(_, _, _, _, _, _, _, _)
RunStages(p, c, acc, uv, ur, vocab, rs, rm) ==
    IF p = "done" THEN acc
    ELSE LET r == CASE p = "unicode" -> NormalizeUnicode(c)
                    [] p = "punct" -> NormalizePunctuation(c)
                    [] p = "numerals" -> NormalizeNumerals(c)
                    [] p = "rules" -> ApplyRules(c, rm)
                    [] p = "vocab" -> NormalizeWithVocabulary(c, vocab)
                    [] p = "ws" -> NormalizeWhitespace(c)
         IN  RunStages(AfterStage(p, ur, rs, uv, vocab), r, Append(acc, <<p, r>>),
                       uv, ur, vocab, rs, rm)

NormalizeSteps(t, uv, ur, vocab, rs, rm) ==
    IF Falsy(t) THEN <<>> ELSE RunStages("unicode", t, <<>>, uv, ur, vocab, rs, rm)

\* the value of the local `text` at the return statement
LastOf(steps, t) == IF steps = <<>> THEN t ELSE steps[Len(steps)][2]

\* a normalize call on the normalizer create_normalizer returned
NormalizeCorpus ==
    /\ created
    /\ call_kind = "none"
    /\ \E t \in CorpusCallTexts, uv \in BOOLEAN, ur \in BOOLEAN :
          /\ call_kind' = "corpus"
          /\ call_text' = t
          /\ use_vocab' = uv
          /\ use_rules' = ur
          /\ call_steps' = NormalizeSteps(t, uv, ur, vocabulary, rules, rule_map)
          /\ call_out' = LastOf(call_steps', t)
    /\ UNCHANGED <<vocabulary, rules, rule_map, loads, text, cur, prev, trace, out,
                   pc, pass, orig, toolVars, cmbVars, anlVars, pnVars>>

NextPipeline ==
    \/ CreateNormalizer
    \/ LoadPredictions
    \/ NormalizePredictions
    \/ NormalizeCorpus

(***************************************************************************)
(* OrthographicStyleNormalizer (orthographic_style_guide.py) and           *)
(* ConservativeKannadaNormalizer (corpus_normalizer_conservative.py)       *)
(***************************************************************************)
\* lines 21-55; a "suffix" rule is r'(\S+) P' -> r'\1P' and holds P
compound_fusion_rules ==
    <<
      [kind |-> "suffix", pat |-> <<3221, 3277, 3221, 3270>>, repl |-> <<3221, 3277, 3221, 3270>>],
      [kind |-> "suffix", pat |-> <<3223, 3270>>, repl |-> <<3223, 3270>>],
      [kind |-> "suffix", pat |-> <<3247, 3202, 3238, 3265>>, repl |-> <<3247, 3202, 3238, 3265>>],
      [kind |-> "suffix", pat |-> <<3253, 3240, 3277, 3240, 3265>>, repl |-> <<3253, 3240, 3277, 3240, 3265>>],
      [kind |-> "suffix", pat |-> <<3247, 3253, 3248>>, repl |-> <<3247, 3253, 3248>>],
      [kind |-> "suffix", pat |-> <<3247, 3262, 3223, 3263>>, repl |-> <<3247, 3262, 3223, 3263>>],
      [kind |-> "suffix", pat |-> <<3247, 3250, 3277, 3250, 3263>>, repl |-> <<3247, 3250, 3277, 3250, 3263>>],
      [kind |-> "suffix", pat |-> <<3238, 3250, 3277, 3250, 3263>>, repl |-> <<3238, 3250, 3277, 3250, 3263>>],
      [kind |-> "suffix", pat |-> <<3238, 3250, 3277, 3250, 3263, 3248, 3265, 3253>>, repl |-> <<3238, 3250, 3277, 3250, 3263, 3248, 3265, 3253>>],
      [kind |-> "suffix", pat |-> <<3253, 3240, 3277, 3240, 3266>>, repl |-> <<3253, 3240, 3277, 3240, 3266>>],
      [kind |-> "suffix", pat |-> <<3238, 3263, 3202, 3238>>, repl |-> <<3238, 3263, 3202, 3238>>],
      [kind |-> "suffix", pat |-> <<3253, 3248, 3270, 3223, 3266>>, repl |-> <<3253, 3248, 3270, 3223, 3266>>],
      [kind |-> "literal", pat |-> <<3209, 3223, 3246, 32, 3256, 3277, 3237, 3262, 3240>>, repl |-> <<3209, 3223, 3246, 3256, 3277, 3237, 3262, 3240>>],
      [kind |-> "literal", pat |-> <<3223, 3277, 3248, 3271, 3240, 3271, 3233, 3277, 32, 3256, 3277, 3242, 3275, 3231>>, repl |-> <<3223, 3277, 3248, 3271, 3240, 3271, 3233, 3277, 3256, 3277, 3242, 3275, 3231>>],
      [kind |-> "literal", pat |-> <<3253, 3263, 3248, 3265, 3238, 3277, 3238, 32>>, repl |-> <<3253, 3263, 3248, 3265, 3238, 3277, 3239, 32>>],
      [kind |-> "literal", pat |-> <<3210, 3231, 32, 3221, 3277, 3221, 3266>>, repl |-> <<3210, 3231, 3221, 3277, 3221, 3266>>],
      [kind |-> "literal", pat |-> <<3248, 3262, 3246, 32, 3242, 3277, 3248, 3256, 3262, 3238>>, repl |-> <<3248, 3262, 3246, 3242, 3277, 3248, 3256, 3262, 3238>>],
      [kind |-> "literal", pat |-> <<3221, 3270, 3251, 32, 3228, 3262, 3236, 3263>>, repl |-> <<3221, 3270, 3251, 3228, 3262, 3236, 3263>>],
      [kind |-> "literal", pat |-> <<3205, 3202, 3236, 3277, 3247, 32, 3223, 3274, 3202, 3233, 3265>>, repl |-> <<3205, 3202, 3236, 3277, 3247, 3223, 3274, 3202, 3233, 3265>>],
      [kind |-> "literal", pat |-> <<3256, 3245, 3270, 32, 3247, 3262, 3223, 3263>>, repl |-> <<3256, 3245, 3270, 3247, 3262, 3223, 3263>>],
      [kind |-> "literal", pat |-> <<3244, 3248, 32, 3244, 3248>>, repl |-> <<3244, 3248, 3244, 3248>>],
      [kind |-> "literal", pat |-> <<3257, 3265, 3231, 3277, 3231, 3265, 32, 3221, 3274, 3202, 3233, 3248, 3270>>, repl |-> <<3257, 3265, 3231, 3277, 3231, 3265, 3221, 3274, 3202, 3233, 3248, 3270>>],
      [kind |-> "literal", pat |-> <<3221, 3202, 3233, 3265, 32, 3244, 3248, 3265, 3236, 3277, 3236, 3238, 3270>>, repl |-> <<3221, 3202, 3233, 3265, 3244, 3248, 3265, 3236, 3277, 3236, 3238, 3270>>],
      [kind |-> "literal", pat |-> <<3221, 3202, 3233, 3265, 32, 3244, 3248, 3265, 3236, 3277, 3236, 3253, 3270>>, repl |-> <<3221, 3202, 3233, 3265, 3244, 3248, 3265, 3236, 3277, 3236, 3253, 3270>>],
      [kind |-> "literal", pat |-> <<3244, 3248, 3270, 3238, 3265, 32, 3221, 3274, 3202, 3233, 3263, 3238, 3277, 3238, 3248, 3265>>, repl |-> <<3244, 3248, 3270, 3238, 3265, 3221, 3274, 3202, 3233, 3263, 3238, 3277, 3238, 3248, 3265>>],
      [kind |-> "literal", pat |-> <<3257, 3202, 3226, 3263, 3221, 3274, 3202, 3233, 3263, 3238, 3277, 3238, 3262, 3248, 3270>>, repl |-> <<3257, 3202, 3226, 3263, 3221, 3274, 3202, 3233, 3263, 3238, 3277, 3238, 3262, 3248, 3270>>] >>

\* lines 59-64
emphatic_removal_rules ==
    <<
      [kind |-> "literal", pat |-> <<3246, 3274, 3246, 3277, 3246, 3221, 3277, 3221, 3251, 3266>>, repl |-> <<3246, 3274, 3246, 3277, 3246, 3221, 3277, 3221, 3251, 3265>>],
      [kind |-> "literal", pat |-> <<3253, 3240, 3277, 3240, 3266>>, repl |-> <<3253, 3240, 3277, 3240, 3265>>],
      [kind |-> "literal", pat |-> <<3223, 3251, 3266>>, repl |-> <<3223, 3251, 3265>>] >>

\* lines 67-74
foreign_separation_rules ==
    <<
      [kind |-> "literal", pat |-> <<3214, 3256, 3263, 3253, 3270, 3202, 3231, 3277>>, repl |-> <<3214, 3256, 3263, 32, 3253, 3270, 3202, 3231, 3277>>],
      [kind |-> "literal", pat |-> <<3243, 3271, 3256, 3277, 8204, 3244, 3265, 3221, 3277>>, repl |-> <<3243, 3271, 3256, 3277, 32, 3244, 3265, 3221, 3277>>],
      [kind |-> "literal", pat |-> <<3244, 3231, 3240, 3277, 3223, 3251, 3265>>, repl |-> <<3244, 3231, 3240, 3277, 32, 3223, 3251, 3265>>] >>

HATHA == <<3257, 3232>>

VISHAYA == <<3253, 3263, 3255, 3247>>

ACVENT == <<3214, 3256, 3263, 3253, 3270, 3202, 3231, 3277>>

VIRUDDA == <<3253, 3263, 3248, 3265, 3238, 3277, 3238>>

VIRUDDHA == <<3253, 3263, 3248, 3265, 3238, 3277, 3239>>

PAKSHA == <<3242, 3221, 3277, 3255>>

ACVENT_GALIVE == <<3214, 3256, 3263, 3253, 3270, 3202, 3231, 3277, 3223, 3251, 3263, 3253, 3270>>

AC_VENT_GALIVE == <<3214, 3256, 3263, 32, 3253, 3270, 3202, 3231, 3277, 32, 3223, 3251, 3263, 3253, 3270>>

AC_VENT == <<3214, 3256, 3263, 32, 3253, 3270, 3202, 3231, 3277>>

GALIVE == <<3223, 3251, 3263, 3253, 3270>>

VANNUU == <<3253, 3240, 3277, 3240, 3266>>

VANNU == <<3253, 3240, 3277, 3240, 3265>>

MOMMAKKALUU == <<3246, 3274, 3246, 3277, 3246, 3221, 3277, 3221, 3251, 3266>>

RAMA_PRASADA == <<3248, 3262, 3246, 32, 3242, 3277, 3248, 3256, 3262, 3238>>

BUTTONGALU == <<3244, 3231, 3240, 3277, 3223, 3251, 3265>>

\* the last code point of the run of non-space code points that holds t[i]
RECURSIVE RunEnd(_, _)
RunEnd(t, i) == IF i < Len(t) /\ ~IsSpace(t[i + 1]) THEN RunEnd(t, i + 1) ELSE i

\* re.sub(r'(\S+) P', r'\1P', text), scanning from position i: the greedy
\* \S+ takes the whole run, which must be followed by U+0020 and P
RECURSIVE SuffixSub(_, _, _)
SuffixSub(t, i, P) ==
    IF i > Len(t) THEN <<>>
    ELSE IF IsSpace(t[i]) THEN <<t[i]>> \o SuffixSub(t, i + 1, P)
    ELSE LET j == RunEnd(t, i)
         IN  IF /\ j + 1 + Len(P) <= Len(t)
                /\ t[j + 1] = SP
                /\ SubSeq(t, j + 2, j + 1 + Len(P)) = P
             THEN SubSeq(t, i, j) \o P \o SuffixSub(t, j + 2 + Len(P), P)
             ELSE SubSeq(t, i, j) \o SuffixSub(t, j + 1, P)

\* lines 85-101: pattern.sub(replacement, text) for each compiled rule in order
RECURSIVE ApplyPatterns(_, _)
ApplyPatterns(t, patterns) ==
    IF patterns = <<>> THEN t
    ELSE LET rule == Head(patterns)
             r == IF rule.kind = "suffix" THEN SuffixSub(t, 1, rule.pat)
                  ELSE Replace(t, rule.pat, rule.repl)
         IN  ApplyPatterns(r, Tail(patterns))

fuse_compounds(t) == ApplyPatterns(t, compound_fusion_rules)

remove_safe_emphatics(t) == ApplyPatterns(t, emphatic_removal_rules)

separate_foreign_words(t) == ApplyPatterns(t, foreign_separation_rules)

\* text.strip() and then re.sub(r'\s+', ' ', text)
StripThenCollapse(t) == CollapseSpaces(Strip(t), FALSE)

\* a variant that cleans the whitespace before it fuses
StyleStepsWhitespaceFirst(t) ==
    IF Falsy(t) THEN <<>>
    ELSE LET s1 == NFC(t)
             s2 == StripThenCollapse(s1)
             s3 == fuse_compounds(s2)
             s4 == remove_safe_emphatics(s3)
             s5 == separate_foreign_words(s4)
         IN  << <<"unicode", s1>>, <<"ws", s2>>, <<"fuse", s3>>, <<"emphatic", s4>>,
                <<"foreign", s5>> >>

\* orthographic_style_guide.py:109-129 as the list of the stages a call runs
StyleSteps(t) ==
    IF Falsy(t) THEN <<>>
    ELSE LET s1 == NFC(t)
             s2 == fuse_compounds(s1)
             s3 == remove_safe_emphatics(s2)
             s4 == separate_foreign_words(s3)
             s5 == StripThenCollapse(s4)
         IN  << <<"unicode", s1>>, <<"fuse", s2>>, <<"emphatic", s3>>, <<"foreign", s4>>,
                <<"ws", s5>> >>

\* a variant that drops the whitespace instead of collapsing it
ConservativeStepsDroppingSpaces(t) ==
    IF Falsy(t) THEN <<>>
    ELSE LET s1 == NFC(t)
             s2 == SelectSeq(s1, LAMBDA c : ~IsSpace(c))
         IN  << <<"unicode", s1>>, <<"ws", s2>> >>

\* corpus_normalizer_conservative.py:41-55
ConservativeSteps(t) ==
    IF Falsy(t) THEN <<>>
    ELSE LET s1 == NFC(t)
             s2 == StripThenCollapse(s1)
         IN  << <<"unicode", s1>>, <<"ws", s2>> >>

\* the postpositions of lines 23-34
Postpositions ==
    { compound_fusion_rules[k].pat :
        k \in {n \in 1..Len(compound_fusion_rules) : compound_fusion_rules[n].kind = "suffix"} }

StyleWords == {HATHA, VISHAYA, ACVENT, VIRUDDA, <<KA>>}

\* the texts of the calls: "W P", the inputs of the built-in tests, the
\* misspelt word at the start, the end and before a tab, doubled spaces
StyleTexts ==
    { W \o <<SP>> \o P : W \in StyleWords, P \in Postpositions }
    \cup { <<>>, NONE, VIRUDDA, PAKSHA \o <<SP>> \o VIRUDDA, VIRUDDA \o <<SP>> \o PAKSHA,
           VIRUDDA \o <<TAB>> \o PAKSHA, ACVENT_GALIVE, ACVENT, BUTTONGALU,
           MOMMAKKALUU, VISHAYA \o VANNUU, RAMA_PRASADA,
           HATHA \o <<SP, SP>> \o compound_fusion_rules[1].pat,
           <<SP>> \o HATHA \o <<SP>> \o compound_fusion_rules[1].pat \o <<SP>>
               \o VISHAYA \o <<SP>> \o VANNUU \o <<TAB>>,
           <<KA, E_SIGN, LEN_MARK, SP>> \o compound_fusion_rules[2].pat }

ConservativeTexts ==
    StrUpTo(SymAlphabet, MaxSymLen)
    \cup { NONE, VIRUDDA \o <<SP>> \o PAKSHA, <<SP, TAB>> \o HATHA \o <<SP, SP>> \o VISHAYA \o <<SP>>,
           <<KA, E_SIGN, LEN_MARK, SP, SP, MA>> }

\* OrthographicStyleNormalizer.normalize
NormalizeStyle ==
    /\ call_kind = "none"
    /\ \E t \in StyleTexts :
          /\ call_kind' = "style"
          /\ call_text' = t
          /\ call_steps' = StyleSteps(t)
          /\ call_out' = LastOf(call_steps', t)
    /\ UNCHANGED <<toolVars, cmbVars, normVars, anlVars, pnVars>>

\* ConservativeKannadaNormalizer.normalize
NormalizeConservative ==
    /\ call_kind = "none"
    /\ \E t \in ConservativeTexts :
          /\ call_kind' = "conservative"
          /\ call_text' = t
          /\ call_steps' = ConservativeSteps(t)
          /\ call_out' = LastOf(call_steps', t)
    /\ UNCHANGED <<toolVars, cmbVars, normVars, anlVars, pnVars>>

NextNormalizers ==
    \/ CreateNormalizer
    \/ NormalizeCorpus
    \/ NormalizeStyle
    \/ NormalizeConservative

(***************************************************************************)
(* CorpusBasedNormalizer: the methods called on their own                  *)
(***************************************************************************)
\* lines 87-137 once more, keeping for every turn of the while loop the
\* index i, the branch taken and the tokens appended to normalized_tokens
RECURSIVE VocabSteps(_, _, _, _)
VocabSteps(tokens, i, steps, vocab) ==
    IF i > Len(tokens) THEN steps
    ELSE IF i < Len(tokens) /\ ShouldMerge(tokens[i], tokens[i + 1], vocab)
         THEN VocabSteps(tokens, i + 2,
                         Append(steps, [at |-> i, kind |-> "merge",
                                        emit |-> <<tokens[i] \o tokens[i + 1]>>]), vocab)
         ELSE LET emit == SplitToken(tokens[i], vocab)
                  kind == IF tokens[i] \in DOMAIN vocab THEN "keep"
                          ELSE IF Len(emit) = 2 THEN "split" ELSE "original"
              IN  VocabSteps(tokens, i + 1,
                             Append(steps, [at |-> i, kind |-> kind, emit |-> emit]), vocab)

KK == <<KA, KA>>

MM == <<MA, MA>>

KKM == <<KA, KA, MA>>

MMM == <<MA, MA, MA>>

KKMM == <<KA, KA, MA, MA>>

KKMMM == <<KA, KA, MA, MA, MA>>

\* vocabulary.json files for the merge and split decisions: the table of
\* VocabFiles; two splits of KKMMM with the same score, and a compound of
\* two unlisted words; the later split
\* better; a score of exactly 10 and a part counted 0; the token itself
\* listed with count 0; compounds at exactly twice and just over twice the
\* rarer part
VocabTables ==
    VocabFiles \cup
    { (KK :> 20) @@ (MMM :> 15) @@ (KKM :> 15) @@ (MM :> 30) @@ (<<KA, MA>> :> 5),
      (KK :> 20) @@ (MMM :> 11) @@ (KKM :> 15) @@ (MM :> 30),
      (KK :> 10) @@ (MMM :> 15) @@ (KKM :> 0) @@ (MM :> 30),
      (KK :> 20) @@ (MMM :> 15) @@ (KKMMM :> 0) @@ (MM :> 12),
      (KK :> 20) @@ (MMM :> 15) @@ (MM :> 15) @@ (KKMMM :> 30) @@ (KKMM :> 31)
         @@ (<<KA>> :> 0) @@ (<<KA, KA, KA>> :> 1) }

VocabTokens == {<<KA>>, <<MA>>, KK, MM, MMM, KKMM, KKMMM}

MaxTokens == 3

\* texts of one to MaxTokens tokens, and two with other whitespace
VocabTexts ==
    {Join(ws, <<SP>>) : ws \in StrUpTo(VocabTokens, MaxTokens)}
        \cup {<<SP>> \o KK \o <<TAB, SP>> \o MMM \o <<SP>>, <<TAB>> \o KKMMM}

\* load_vocabulary, lines 26-30
LoadVocabularyTable ==
    /\ call_kind = "none"
    /\ \E file \in VocabTables : vocabulary' = file
    /\ UNCHANGED <<rules, rule_map, loads, text, use_vocab, use_rules,
                   cur, prev, trace, out, pc, pass, orig, anlVars, pnVars, extVars>>

\* normalize_with_vocabulary(text) called directly
CallNormalizeWithVocabulary ==
    /\ call_kind = "none"
    /\ \E t \in VocabTexts :
          /\ call_text' = t
          /\ call_steps' = VocabSteps(Split(t), 1, <<>>, vocabulary)
          /\ call_out' = NormalizeWithVocabulary(t, vocabulary)
    /\ call_kind' = "vocab"
    /\ UNCHANGED <<normVars, anlVars, pnVars, toolVars, cmbVars>>

NextMethods ==
    \/ LoadVocabularyTable
    \/ CallNormalizeWithVocabulary

(***************************************************************************)
(* levenshtein_distance called on its own                                  *)
(***************************************************************************)
MaxWordLen == 4

\* the words compared: every string of the two letters up to MaxWordLen
DistanceWords == StrUpTo({KA, MA}, MaxWordLen)

\* the cutoffs, with the one extract_mismatched_words passes
MaxDists == 0..MAX_DIST

CallLevenshteinDistance ==
    /\ call_kind = "none"
    /\ \E s1 \in DistanceWords, s2 \in DistanceWords, max_dist \in MaxDists :
          /\ call_text' = <<s1, s2>>
          /\ call_steps' = <<max_dist>>
          /\ call_out' = LevenshteinDistance(s1, s2, max_dist)
    /\ call_kind' = "distance"
    /\ UNCHANGED <<normVars, anlVars, pnVars, toolVars, cmbVars>>

VPIPE == <<KA, PIPE>>

VKPM == <<KA, PIPE, MA>>

Transcript(ws) == Join(ws, <<SP>>)

Pred(ref_words, hyp_words) ==
    [ground_truth |-> Transcript(ref_words), prediction |-> Transcript(hyp_words)]

\* prediction records: words that differ at the first position, a longer
\* reference, two mismatches in one record, equal transcripts, words too
\* far apart, an empty reference, and words that contain the character '|'
ExtractItems ==
    { Pred(<<VA, VB>>, <<VB, VB>>),
      Pred(<<VA, VB, VA>>, <<VB>>),
      Pred(<<VB, VA>>, <<VA, VE>>),
      Pred(<<VA>>, <<VA>>),
      Pred(<<VLONG>>, <<VA>>),
      Pred(<<VA>>, << <<MA, MA, MA, MA>> >>),
      Pred(<<VA, VE>>, <<VE, VA>>),
      Pred(<<VB, VA>>, <<VB, VE>>),
      Pred(<<>>, <<VA>>),
      Pred(<<VPIPE>>, <<VA>>),
      Pred(<<VA, VB>>, <<VKPM, VB>>),
      Pred(<<VKPM>>, <<VKPM>>) }

MaxExtractPreds == 2

\* extract_mismatched_words(predictions) called on its own; the unpacking
\* of line 72 raises ValueError
CallExtractMismatchedWords ==
    /\ call_kind = "none"
    /\ \E predictions \in StrUpTo(ExtractItems, MaxExtractPreds) :
          LET d == CollectMismatches(predictions, <<>>)
          IN  /\ call_text' = predictions
              /\ call_steps' = d
              /\ IF KeysUnpack(d)
                 THEN call_out' = MismatchList(d, <<>>) /\ call_kind' = "extracted"
                 ELSE call_out' = <<>> /\ call_kind' = "raised"
    /\ UNCHANGED <<normVars, anlVars, pnVars, toolVars, cmbVars>>

NextExtraction ==
    \/ CallLevenshteinDistance
    \/ CallExtractMismatchedWords

(***************************************************************************)
(* CorpusAnalyzer: several analyze_file calls on one analyzer              *)
(***************************************************************************)
\* short corpus files: a word three times on a line, words on separate
\* lines, a compound and its parts, a line twice
ShortCorpusFiles ==
    { << <<FOO \o <<SP>> \o FOO \o <<SP>> \o FOO, 1>> >>,
      << <<FOO, 1>>, <<BAR, 1>> >>,
      << <<FOOBAR, 1>>, <<FOO \o <<SP>> \o BAR, 1>> >>,
      << <<FOO \o <<HYPHEN>> \o BAR \o <<TAB>> \o FOOBAR, 1>>, <<BAR \o <<SP>> \o FOO, 2>> >> }

\* max_lines: 0 for no cap (None), or a cap
ShortCaps == {0, 1, 2}

MaxAnalyzeCalls == 2

\* analyze_file(corpus_path, max_lines), lines 36-68; the calls made so far
\* are kept in call_text
AnalyzeCorpusFile ==
    /\ call_kind \in {"none", "analyze"}
    /\ Len(call_text) < MaxAnalyzeCalls
    /\ \E file \in ShortCorpusFiles, max_lines \in ShortCaps :
          LET tables == ScanRuns(file, 0, max_lines,
                                 [wf |-> word_freq, bf |-> bigram_freq, tf |-> trigram_freq])
          IN  /\ word_freq' = tables.wf
              /\ bigram_freq' = tables.bf
              /\ trigram_freq' = tables.tf
              /\ call_text' = Append(call_text, <<file, max_lines>>)
    /\ call_kind' = "analyze"
    /\ aphase' = "scan"
    /\ variations' = <<>>
    /\ found_min_freq' = 0
    /\ anl_rules' = <<>>
    /\ UNCHANGED <<scans, call_steps, call_out, normVars, pnVars, toolVars, cmbVars>>

NextCounts ==
    \/ AnalyzeCorpusFile
    \/ FindCompoundVariations

(***************************************************************************)
(* CorpusBasedNormalizer: load_rules and apply_rules on their own          *)
(***************************************************************************)
KMK == <<KA, MA, KA>>

MK == <<MA, KA>>

\* corpora in which FOOBAR is rarer than both "FOO BAR" and "BAR FOO"
RuleCorpora ==
    { << <<FOOBAR, 1>>, <<FOO \o <<SP>> \o BAR, 3>>, <<BAR \o <<SP>> \o FOO, 2>> >>,
      << <<FOOBAR, 1>>, <<FOO \o <<SP>> \o BAR, 2>>, <<BAR \o <<SP>> \o FOO, 4>> >>,
      << <<FOOBAR, 1>>, <<BAR \o <<SP>> \o FOO \o <<SP>> \o BAR, 2>> >>,
      << <<FOOBAR, 6>>, <<FOO \o <<SP>> \o BAR, 2>> >> }

\* normalization_rules.json as analyze_file, find_compound_variations and
\* get_normalization_rules make it from a corpus
AnalyzerRulesOf(corpus, min_freq) ==
    LET tables == ScanRuns(corpus, 0, 0, [wf |-> <<>>, bf |-> <<>>, tf |-> <<>>])
    IN  GetNormalizationRulesOf(FindCompoundVariationsOf(min_freq, tables.wf, tables.bf))

AnalyzerRuleFiles == {AnalyzerRulesOf(corpus, 1) : corpus \in RuleCorpora}

\* rule files whose sources overlap (MK is part of KMK), in both orders,
\* and one that gives another target for KMK
OverlapRuleFiles ==
    { << Rule(KMK, <<KA, SP>> \o MK, 2, 12), Rule(MK, <<MA, SP, KA>>, 3, 9) >>,
      << Rule(MK, <<MA, SP, KA>>, 3, 9), Rule(KMK, <<KA, SP>> \o MK, 2, 12) >>,
      << Rule(KMK, <<KA, MA, SP, KA>>, 2, 4) >> }

MaxRuleTables == 2

RuleTexts ==
    { <<>>, KMK, MK, KMK \o <<SP>> \o MK, <<KA, SP>> \o MK, FOOBAR,
      FOOBAR \o <<SP>> \o FOOBAR, BAR \o <<SP>> \o FOO }

\* load_rules, lines 32-41, on a file of either kind
LoadRulesFile ==
    /\ call_kind = "none"
    /\ loads < MaxRuleTables
    /\ \E file \in AnalyzerRuleFiles \cup OverlapRuleFiles :
          /\ rules' = file
          /\ rule_map' = BuildRuleMap(rule_map, file)
    /\ loads' = loads + 1
    /\ UNCHANGED <<vocabulary, text, use_vocab, use_rules,
                   cur, prev, trace, out, pc, pass, orig, anlVars, pnVars, extVars>>

\* lines 73-76: the text after each rule of rule_map.items()
RECURSIVE ApplyRuleSteps(_, _, _)
ApplyRuleSteps(t, rm, steps) ==
    IF rm = <<>> THEN steps
    ELSE LET r == Replace(t, rm[1][1], rm[1][2])
         IN  ApplyRuleSteps(r, Tail(rm), Append(steps, r))

\* apply_rules(text) called directly
CallApplyRules ==
    /\ call_kind = "none"
    /\ loads > 0
    /\ \E t \in RuleTexts :
          /\ call_text' = t
          /\ call_steps' = ApplyRuleSteps(t, rule_map, <<>>)
          /\ call_out' = ApplyRules(t, rule_map)
    /\ call_kind' = "rules"
    /\ UNCHANGED <<normVars, anlVars, pnVars, toolVars, cmbVars>>

NextRules ==
    \/ LoadRulesFile
    \/ CallApplyRules

(***************************************************************************)
(* Specifications                                                          *)
(***************************************************************************)
InitTools ==
    /\ created = FALSE /\ vocab_found = FALSE /\ rules_found = FALSE
    /\ pred_data = <<>> /\ pred_norm = <<>>
    /\ call_kind = "none" /\ call_text = <<>> /\ call_steps = <<>> /\ call_out = <<>>
    /\ cn_rule_map = <<>> /\ cn_text = <<>> /\ cn_mid = <<>> /\ cn_out = <<>>
    /\ cn_calls = 0

Init == InitNormalizer /\ InitAnalyzer /\ InitProperNouns /\ InitTools

NextNormalizer ==
    \/ LoadVocabulary
    \/ LoadRules
    \/ Call
    \/ CallAgain
    \/ StepUnicode
    \/ StepPunctuation
    \/ StepNumerals
    \/ StepRules
    \/ StepVocabulary
    \/ StepWhitespace
    \/ Return

Spec == Init /\ [][NextNormalizer]_vars

SpecAnalyzer == Init /\ [][NextAnalyzer]_vars

SpecProperNouns == Init /\ [][NextProperNouns]_vars

SpecCombined == Init /\ [][NextCombined]_vars

SpecPipeline == Init /\ [][NextPipeline]_vars

SpecNormalizers == Init /\ [][NextNormalizers]_vars

SpecMethods == Init /\ [][NextMethods]_vars

SpecRules == Init /\ [][NextRules]_vars

SpecCounts == Init /\ [][NextCounts]_vars

SpecExtraction == Init /\ [][NextExtraction]_vars

(***************************************************************************)
(* Claims about CorpusBasedNormalizer                                      *)
(***************************************************************************)
IsPrefix(a, b) == Len(a) <= Len(b) /\ SubSeq(b, 1, Len(a)) = a

\* the stages normalize runs on a non-empty text, by flags and tables
ExpectedStages(ur, rs, uv, vocab) ==
    <<"unicode", "punct", "numerals">>
        \o (IF ur /\ rs # <<>> THEN <<"rules">> ELSE <<>>)
        \o (IF uv /\ DOMAIN vocab # {} THEN <<"vocab">> ELSE <<>>)
        \o <<"ws">>

\* two frequencies are tied or near-tied: both positive and within a factor
\* of two of each other
NearTied(a, b) == a > 0 /\ b > 0 /\ a < 2 * b /\ b < 2 * a

\* the comparisons the vocabulary stage makes on the token list of t:
\* compound frequency against twice the smaller part, split scores against
\* each other and against the threshold
TieFree(t, vocab) ==
    LET tokens == Split(t)
        Freq(w) == DictGet(vocab, w, 0)
        Score(tok, j) == Min2(Freq(SubSeq(tok, 1, j)), Freq(SubSeq(tok, j + 1, Len(tok))))
    IN  /\ \A k \in 1..(Len(tokens) - 1) :
              ~NearTied(Freq(tokens[k] \o tokens[k + 1]),
                        MERGE_FACTOR * Min2(Freq(tokens[k]), Freq(tokens[k + 1])))
        /\ \A k \in 1..Len(tokens) :
              \A j \in 2..(Len(tokens[k]) - 2) :
                  /\ ~NearTied(Score(tokens[k], j), SPLIT_MIN_SCORE)
                  /\ \A j2 \in 2..(Len(tokens[k]) - 2) :
                        j2 # j => ~NearTied(Score(tokens[k], j), Score(tokens[k], j2))

\* the text the vocabulary stage of a call on t would receive
BeforeVocab(t, ur, rs, rm) ==
    LET s3 == NormalizeNumerals(NormalizePunctuation(NormalizeUnicode(t)))
    IN  IF RulesStageOn(ur, rs) THEN ApplyRules(s3, rm) ELSE s3

\* C1 (as stated): with the tables and flags fixed, normalizing the result
\* of normalize again returns it unchanged, for every input whose merge and
\* split candidates, in the first call and in the repeated one, involve no
\* tied or near-tied frequencies.
C1_IdempotentWithoutTies ==
    (pc = "done" /\ pass = 2
        /\ TieFree(BeforeVocab(orig, use_rules, rules, rule_map), vocabulary)
        /\ TieFree(BeforeVocab(text, use_rules, rules, rule_map), vocabulary))
    => out = text

\* C1 (amended): when neither table-driven stage runs (its flag is off or
\* its table is empty), normalizing the result of normalize again returns
\* it unchanged.
C1_IdempotentWithoutTables ==
    (pc = "done" /\ pass = 2
        /\ ~RulesStageOn(use_rules, rules) /\ ~VocabStageOn(use_vocab, vocabulary))
    => out = text

C1_Witness ==
    /\ pc = "done" /\ pass = 2
    /\ rules # <<>> /\ ~use_rules
    /\ DOMAIN vocabulary # {} /\ ~use_vocab
    /\ out = text
    /\ Len(trace) = 4
    /\ Len(text) >= 3

\* C8: no step of normalize changes vocabulary, rules or rule_map, and the
\* string a call returns is the value of one function of its arguments
\* (text, flags) and the tables.
NormalizeStep ==
    \/ Call \/ CallAgain
    \/ StepUnicode \/ StepPunctuation \/ StepNumerals
    \/ StepRules \/ StepVocabulary \/ StepWhitespace

C8_TablesFrozenResultPure ==
    [][NormalizeStep =>
          /\ vocabulary' = vocabulary /\ rules' = rules /\ rule_map' = rule_map
          /\ (pc' = "done" =>
                out' = Normalize(text', use_vocab', use_rules',
                                 vocabulary, rules, rule_map))]_vars

C8_Witness ==
    /\ pc = "done"
    /\ "rules" \in {trace[k] : k \in 1..Len(trace)}
    /\ "vocab" \in {trace[k] : k \in 1..Len(trace)}
    /\ out # text

\* C9: a call on a non-empty text runs Unicode NFC, punctuation, numerals,
\* rules (only if use_rules and rules are loaded), vocabulary (only if
\* use_vocab and a vocabulary is loaded), whitespace, in this order, each
\* once and each on the output of the one before; the result is the output
\* of the whitespace stage.
C9_StageOrder ==
    LET expected == ExpectedStages(use_rules, rules, use_vocab, vocabulary)
        s1 == NormalizeUnicode(text)
        s2 == NormalizePunctuation(s1)
        s3 == NormalizeNumerals(s2)
        s4 == IF use_rules /\ rules # <<>> THEN ApplyRules(s3, rule_map) ELSE s3
        s5 == IF use_vocab /\ DOMAIN vocabulary # {}
              THEN NormalizeWithVocabulary(s4, vocabulary) ELSE s4
        s6 == NormalizeWhitespace(s5)
        After(stage) ==
            CASE stage = "unicode" -> s1 [] stage = "punct" -> s2
              [] stage = "numerals" -> s3 [] stage = "rules" -> s4
              [] stage = "vocab" -> s5 [] stage = "ws" -> s6
    IN  (pc # "idle" /\ text # <<>>) =>
            /\ IsPrefix(trace, expected)
            /\ (pc = "done" => trace = expected /\ out = s6)
            /\ (trace # <<>> => cur = After(trace[Len(trace)]))
            /\ (pc \notin {"done", "unicode"} => pc = expected[Len(trace) + 1])

C9_Witness ==
    /\ pc = "done"
    /\ trace = <<"unicode", "punct", "numerals", "rules", "vocab", "ws">>
    /\ ApplyRules(text, rule_map) # text
    /\ out # ApplyRules(text, rule_map)

\* C10: with a single loaded rule (source "A B", target "AB"), the rule
\* stage turns the input "A B" into exactly "AB" and returns every input
\* that does not contain "A B" unchanged.
SingleSpacedRule ==
    /\ Len(rule_map) = 1
    /\ \E a, b \in StrUpTo({KA, MA}, 2) \ {<<>>} :
          rule_map[1] = <<a \o <<SP>> \o b, a \o b>>

C10_SingleRule ==
    (trace # <<>> /\ trace[Len(trace)] = "rules" /\ SingleSpacedRule) =>
        /\ (prev = rule_map[1][1] => cur = rule_map[1][2])
        /\ (~Contains(prev, rule_map[1][1]) => cur = prev)

C10_Witness ==
    /\ trace # <<>> /\ trace[Len(trace)] = "rules" /\ SingleSpacedRule
    /\ prev = rule_map[1][1]
    /\ cur = rule_map[1][2]
    /\ rule_map[1][1] = <<KA, SP, MA>>

(***************************************************************************)
(* Claims about CorpusAnalyzer                                             *)
(***************************************************************************)
\* every variation record of `variations`, in the order of the dict's lists
RECURSIVE AllVariations(_)
AllVariations(vs) ==
    IF vs = <<>> THEN <<>> ELSE vs[1][2] \o AllVariations(Tail(vs))

\* the count of key k in a counter, taken from its items
CountOf(d, k) ==
    IF \E n \in 1..Len(d) : d[n][1] = k
    THEN (CHOOSE c \in {d[n][2] : n \in {m \in 1..Len(d) : d[m][1] = k}} : TRUE)
    ELSE 0

\* the conditions of C2 on a word w and a split point i
SplitQualifies(w, i, min_freq) ==
    /\ CountOf(word_freq, w) >= min_freq
    /\ Len(w) >= 4
    /\ 2 <= i /\ i <= Len(w) - 2
    /\ SubSeq(w, 1, i) \in ODKeys(word_freq)
    /\ SubSeq(w, i + 1, Len(w)) \in ODKeys(word_freq)
    /\ CountOf(bigram_freq, <<SubSeq(w, 1, i), SubSeq(w, i + 1, Len(w))>>) >= min_freq

\* C2: find_compound_variations(min_freq) reports a variation for a word w
\* of the table and a split point i only if count(w) >= min_freq,
\* len(w) >= 4, 2 <= i <= len(w)-2, both parts are in the word table and
\* the bigram of the parts has count >= min_freq; and it reports exactly
\* one variation for every (w, i) that meets all of these.
C2_VariationsExact ==
    aphase \in {"found", "ruled"} =>
        LET V == AllVariations(variations)
            Reported(w, i) ==
                {n \in 1..Len(V) : V[n].compound = w /\ V[n].part1 = SubSeq(w, 1, i)
                                     /\ V[n].part2 = SubSeq(w, i + 1, Len(w))}
        IN  /\ \A n \in 1..Len(V) :
                  /\ V[n].compound \in ODKeys(word_freq)
                  /\ V[n].compound = V[n].part1 \o V[n].part2
                  /\ SplitQualifies(V[n].compound, Len(V[n].part1), found_min_freq)
            /\ \A w \in ODKeys(word_freq) : \A i \in 0..Len(w) :
                  Cardinality(Reported(w, i)) =
                      IF SplitQualifies(w, i, found_min_freq) THEN 1 ELSE 0

C2_Witness ==
    /\ aphase = "found"
    /\ found_min_freq = 2
    /\ Len(AllVariations(variations)) = 2
    /\ \A n \in 1..2 : AllVariations(variations)[n].compound = FOOBAR

\* the corpus of C3: FOO and BAR 20 times each, FOOBAR 15 times, the
\* bigram (FOO, BAR) k times, analysed with min_freq = 10
FooBarCorpus(k) ==
    /\ CountOf(word_freq, FOO) = 20
    /\ CountOf(word_freq, BAR) = 20
    /\ CountOf(word_freq, FOOBAR) = 15
    /\ CountOf(bigram_freq, <<FOO, BAR>>) = k
    /\ found_min_freq = 10

FooBarSpaced == FOO \o <<SP>> \o BAR

FooBarVariation(V) ==
    {n \in 1..Len(V) : V[n].compound = FOOBAR /\ V[n].spaced = FooBarSpaced}

FooBarRule(rs) ==
    {n \in 1..Len(rs) : {rs[n].source, rs[n].target} = {FOOBAR, FooBarSpaced}}

\* C3 (as stated): with the bigram 2 times no rule between "foo bar" and
\* "foobar" is proposed; with the bigram 12 times the rule appears among
\* the normalization rules.
C3_BigramGateYieldsRule ==
    /\ (aphase = "ruled" /\ FooBarCorpus(2)) => FooBarRule(anl_rules) = {}
    /\ (aphase = "ruled" /\ FooBarCorpus(12)) => FooBarRule(anl_rules) # {}

\* C3 (amended): with the bigram 2 times find_compound_variations(10)
\* reports no "foo bar"/"foobar" variation and no rule follows; with the
\* bigram 12 times it reports that variation exactly once (compound 15,
\* spaced 12), and get_normalization_rules still derives no rule from it,
\* the ratio 15/12 being below 1.5.
C3_BigramGateYieldsVariation ==
    LET V == AllVariations(variations)
    IN  /\ (aphase \in {"found", "ruled"} /\ FooBarCorpus(2)) =>
               FooBarVariation(V) = {}
        /\ (aphase = "ruled" /\ FooBarCorpus(2)) => FooBarRule(anl_rules) = {}
        /\ (aphase \in {"found", "ruled"} /\ FooBarCorpus(12)) =>
               /\ Cardinality(FooBarVariation(V)) = 1
               /\ \A n \in FooBarVariation(V) :
                     V[n].compound_freq = 15 /\ V[n].spaced_freq = 12
        /\ (aphase = "ruled" /\ FooBarCorpus(12)) => FooBarRule(anl_rules) = {}

C3_Witness ==
    /\ aphase = "ruled"
    /\ FooBarCorpus(12)
    /\ FooBarVariation(AllVariations(variations)) # {}
    /\ anl_rules = <<>>

C3_WitnessBelowGate ==
    /\ aphase = "ruled"
    /\ FooBarCorpus(2)
    /\ variations = <<>>

\* C4: every rule of get_normalization_rules maps the less frequent form
\* of a variation to the strictly more frequent one, has source # target,
\* has confidence target_freq / max(source_freq, 1), and that ratio is
\* strictly greater than 1.5; a variation whose ratio is <= 1.5 (equal
\* frequencies included) yields no rule, any other exactly one.
FormFreq(var, form) ==
    IF form = var.compound THEN var.compound_freq ELSE var.spaced_freq

RuleIsOf(rule, var) ==
    /\ {rule.source, rule.target} = {var.compound, var.spaced}
    /\ rule.source_freq = FormFreq(var, rule.source)
    /\ rule.target_freq = FormFreq(var, rule.target)

C4_RulesPreferFrequentForm ==
    aphase = "ruled" =>
        LET V == AllVariations(variations)
            hi(var) == Max2(var.compound_freq, var.spaced_freq)
            lo(var) == Min2(var.compound_freq, var.spaced_freq)
        IN  /\ \A n \in 1..Len(anl_rules) :
                  LET r == anl_rules[n]
                  IN  /\ r.source # r.target
                      /\ r.target_freq > r.source_freq
                      /\ r.confidence[1] * Max2(r.source_freq, 1)
                            = r.target_freq * r.confidence[2]
                      /\ 2 * r.confidence[1] > 3 * r.confidence[2]
                      /\ \E m \in 1..Len(V) : RuleIsOf(r, V[m])
            /\ \A m \in 1..Len(V) :
                  Cardinality({n \in 1..Len(anl_rules) : RuleIsOf(anl_rules[n], V[m])})
                      = IF 2 * hi(V[m]) > 3 * Max2(lo(V[m]), 1) THEN 1 ELSE 0

C4_Witness ==
    /\ aphase = "ruled"
    /\ Len(anl_rules) >= 1
    /\ \E m \in 1..Len(AllVariations(variations)) :
          AllVariations(variations)[m].compound_freq
              = AllVariations(variations)[m].spaced_freq
    /\ \E n \in 1..Len(anl_rules) : anl_rules[n].source = FOOBAR
    /\ found_min_freq >= 1

(***************************************************************************)
(* Claims about the proper-noun handling                                   *)
(***************************************************************************)
\* w stands in the line between whitespace or the line's ends
OccursAsToken(w, line) ==
    \E i \in 1..(Len(line) - Len(w) + 1) :
        /\ SubSeq(line, i, i + Len(w) - 1) = w
        /\ i = 1 \/ IsSpace(line[i - 1])
        /\ i + Len(w) - 1 = Len(line) \/ IsSpace(line[i + Len(w)])

InCorpusPrefix(w) ==
    \E k \in 1..Min2(val_max_lines, Len(val_corpus)) : OccursAsToken(w, val_corpus[k])

InLaterLine(w) ==
    \E k \in (val_max_lines + 1)..Len(val_corpus) : OccursAsToken(w, val_corpus[k])

\* C5: after validate_against_corpus every mismatch record's ref_in_corpus
\* and hyp_in_corpus say whether the word stands as a whitespace-delimited
\* token in one of the first max_lines lines of the corpus, and the record's
\* recommendation is ACCEPT_BOTH iff both do, PREFER_REF iff only ref_word
\* does, PREFER_HYP iff only hyp_word does, MANUAL_REVIEW iff neither does.
C5_RecommendationFromCorpusPrefix ==
    vphase = "validated" =>
        \A n \in 1..Len(mismatches) :
            LET m == mismatches[n]
                r == InCorpusPrefix(m.ref_word)
                h == InCorpusPrefix(m.hyp_word)
            IN  /\ m.ref_in_corpus = r
                /\ m.hyp_in_corpus = h
                /\ (m.recommendation = "ACCEPT_BOTH") = (r /\ h)
                /\ (m.recommendation = "PREFER_REF") = (r /\ ~h)
                /\ (m.recommendation = "PREFER_HYP") = (~r /\ h)
                /\ (m.recommendation = "MANUAL_REVIEW") = (~r /\ ~h)

\* a record whose ref_word stands only in a line after max_lines, and whose
\* hyp_word stands in the scanned prefix
C5_Witness ==
    /\ vphase = "validated"
    /\ val_max_lines >= 1
    /\ \E n \in 1..Len(mismatches) :
          /\ InLaterLine(mismatches[n].ref_word)
          /\ ~mismatches[n].ref_in_corpus
          /\ mismatches[n].hyp_in_corpus
          /\ mismatches[n].recommendation = "PREFER_HYP"

RECURSIVE ConcatAll(_)
ConcatAll(lists) == IF lists = <<>> THEN <<>> ELSE lists[1] \o ConcatAll(Tail(lists))

SavedRecords == ConcatAll(categorized)

InAcceptBothRecord(w) ==
    \E n \in 1..Len(SavedRecords) :
        /\ SavedRecords[n].recommendation = "ACCEPT_BOTH"
        /\ w \in {SavedRecords[n].ref_word, SavedRecords[n].hyp_word}

InSomeRecord(w) ==
    \E n \in 1..Len(SavedRecords) :
        w \in {SavedRecords[n].ref_word, SavedRecords[n].hyp_word}

\* C6: ProperNounNormalizer.normalize outputs the words of the NFC form of
\* its text one for one, and a word comes out different only if it is the
\* ref_word or hyp_word of a saved record recommended ACCEPT_BOTH.
C6_RewritesOnlyAcceptBoth ==
    pn_calls = 1 =>
        LET words == Split(Strip(NFC(pn_text)))
            result == Split(pn_out)
        IN  /\ Len(result) = Len(words)
            /\ \A k \in 1..Len(words) :
                  result[k] # words[k] => InAcceptBothRecord(words[k])

\* one word of the text is rewritten, another stands only in a record that
\* is not recommended ACCEPT_BOTH and comes out as it went in
C6_Witness ==
    /\ pn_calls = 1
    /\ LET words == Split(Strip(NFC(pn_text)))
           result == Split(pn_out)
       IN  /\ Len(result) = Len(words)
           /\ \E k \in 1..Len(words) : result[k] # words[k]
           /\ \E k \in 1..Len(words) :
                 /\ InSomeRecord(words[k])
                 /\ ~InAcceptBothRecord(words[k])
                 /\ result[k] = words[k]

AcceptBothPairs ==
    {<<SavedRecords[n].ref_word, SavedRecords[n].hyp_word>> :
        n \in {k \in 1..Len(SavedRecords) : SavedRecords[k].recommendation = "ACCEPT_BOTH"}}

\* C7: for every ACCEPT_BOTH pair loaded from the analysis, both words are
\* normalized to the alphabetically first of the two, by
\* ProperNounNormalizer.normalize_word and by CombinedNormalizer's variant
\* map, whatever the set of loaded pairs.
C7_PairsShareCanonicalForm ==
    /\ pn_loaded =>
          \A pair \in AcceptBothPairs :
              /\ NormalizeWord(pn_map, pair[1]) = StrMin(pair[1], pair[2])
              /\ NormalizeWord(pn_map, pair[2]) = StrMin(pair[1], pair[2])
    /\ cn_loaded =>
          \A pair \in AcceptBothPairs :
              /\ CombinedWord(cn_map, pair[1]) = StrMin(pair[1], pair[2])
              /\ CombinedWord(cn_map, pair[2]) = StrMin(pair[1], pair[2])

(***************************************************************************)
(* Claims about the prediction pipeline                                    *)
(***************************************************************************)
FusedExample == << [ground_truth |-> KELAVU_VARSHA, prediction |-> KELAVARSHA] >>

FusedRuleLoaded == rule_map = << <<KELAVARSHA, KELAVU_VARSHA>> >>

\* C11: with the rule "fused form -> spaced form" loaded, normalizing the
\* record (ground_truth = spaced form, prediction = fused form) yields a
\* record whose two fields are equal, so that the word-level error between
\* them goes from more than 0 to 0; both fields are the spaced form unless
\* the vocabulary holds the concatenation of the two words.
C11_FusedRuleClosesTheGap ==
    (pred_norm # <<>> /\ pred_data = FusedExample /\ FusedRuleLoaded)
    => /\ pred_norm[1].ground_truth = pred_norm[1].prediction
       /\ WordErrors(pred_data) > 0
       /\ WordErrors(pred_norm) = 0
       /\ pred_norm[1].ground_truth_original = KELAVU_VARSHA
       /\ pred_norm[1].prediction_original = KELAVARSHA
       /\ DictGet(vocabulary, KELAVU \o VARSHA, 0) = 0
             => /\ pred_norm[1].ground_truth = KELAVU_VARSHA
                /\ pred_norm[1].prediction = KELAVU_VARSHA

C11_Witness ==
    /\ pred_norm # <<>> /\ pred_data = FusedExample /\ FusedRuleLoaded
    /\ DOMAIN vocabulary # {}
    /\ pred_norm[1].prediction = KELAVU_VARSHA
    /\ pred_norm[1].ground_truth = KELAVU_VARSHA

CorpusCalled == call_kind = "corpus" /\ ~Falsy(call_text)

KannadaDigit(c) == c \in {KN_DIGITS[k] : k \in 1..10}

\* "0123456789"
ASCII_DIGITS == <<48, 49, 50, 51, 52, 53, 54, 55, 56, 57>>

AsciiOf(c) == ASCII_DIGITS[CHOOSE k \in 1..10 : KN_DIGITS[k] = c]

StageNames(steps) == [k \in 1..Len(steps) |-> steps[k][1]]

\* the text a stage of the call received
StageInput(k) == IF k = 1 THEN call_text ELSE call_steps[k - 1][2]

\* C12: normalize maps every Kannada digit to the ASCII digit of the same
\* value: the numeral stage rewrites its input position by position, a text
\* of Kannada digits comes out as the ASCII digits of the same length and
\* order, and no Kannada digit is left in the output of a call or in a
\* normalized prediction field.
C12_DigitsToAscii ==
    /\ CorpusCalled
         => /\ \A k \in 1..Len(call_out) : ~KannadaDigit(call_out[k])
            /\ \A i \in 1..Len(call_steps) :
                  call_steps[i][1] = "numerals"
                  => call_steps[i][2] =
                        [k \in 1..Len(StageInput(i)) |->
                            IF KannadaDigit(StageInput(i)[k])
                            THEN AsciiOf(StageInput(i)[k]) ELSE StageInput(i)[k]]
            /\ (\A k \in 1..Len(call_text) : KannadaDigit(call_text[k]))
                  => call_out = [k \in 1..Len(call_text) |-> AsciiOf(call_text[k])]
    /\ \A k \in 1..Len(pred_norm) :
          \A f \in {"ground_truth", "prediction"} \cap DOMAIN pred_norm[k] :
             \A j \in 1..Len(pred_norm[k][f]) : ~KannadaDigit(pred_norm[k][f][j])

C12_Witness ==
    /\ CorpusCalled
    /\ call_text = KN_DIGITS
    /\ call_out = ASCII_DIGITS
    /\ rules # <<>> /\ DOMAIN vocabulary # {} /\ use_rules /\ use_vocab

\* C13: the output of normalize on a non-empty text is in NFC form, whatever
\* tables are loaded.
C13_OutputIsNFC == CorpusCalled => IsNFC(call_out)

\* C20: create_normalizer returns a normalizer when vocabulary.json or
\* normalization_rules.json is missing; the table of a missing file is
\* empty, a call then skips that table's stage and still runs the Unicode,
\* punctuation, numeral and whitespace stages.
C20_MissingTablesDisableStages ==
    created
    => /\ ~vocab_found => vocabulary = EmptyDict
       /\ ~rules_found => rules = <<>> /\ rule_map = <<>>
       /\ CorpusCalled
            => /\ ~vocab_found => \A k \in 1..Len(call_steps) : call_steps[k][1] # "vocab"
               /\ ~rules_found => \A k \in 1..Len(call_steps) : call_steps[k][1] # "rules"
               /\ \A p \in {"unicode", "punct", "numerals", "ws"} :
                     \E k \in 1..Len(call_steps) : call_steps[k][1] = p
               /\ (~vocab_found /\ ~rules_found)
                     => call_out = NormalizeWhitespace(NormalizeNumerals(
                                      NormalizePunctuation(NormalizeUnicode(call_text))))
               /\ ~rules_found
                     => call_out = Normalize(call_text, use_vocab, FALSE,
                                             vocabulary, rules, rule_map)
               /\ ~vocab_found
                     => call_out = Normalize(call_text, FALSE, use_rules,
                                             vocabulary, rules, rule_map)

C20_Witness ==
    /\ created /\ ~rules_found /\ vocab_found /\ DOMAIN vocabulary # {}
    /\ CorpusCalled /\ use_rules /\ use_vocab
    /\ StageNames(call_steps) = <<"unicode", "punct", "numerals", "vocab", "ws">>
    /\ call_out # call_text

(***************************************************************************)
(* Claims about the three plain normalizers                                *)
(***************************************************************************)
\* C14: normalize returns the empty string and None unchanged and runs no
\* stage on them, in CorpusBasedNormalizer (whatever tables and flags),
\* OrthographicStyleNormalizer and ConservativeKannadaNormalizer.
C14_EmptyAndNoneReturned ==
    (call_kind \in {"corpus", "style", "conservative"} /\ call_text \in {<<>>, NONE})
    => call_out = call_text /\ call_steps = <<>>

C14_Witness ==
    /\ call_kind = "corpus" /\ call_text = NONE /\ call_out = NONE
    /\ rules # <<>> /\ DOMAIN vocabulary # {} /\ use_rules /\ use_vocab

StyleCalled == call_kind = "style" /\ call_text \notin {<<>>, NONE}

StyleStage(name, t) ==
    CASE name = "unicode" -> NFC(t)
      [] name = "fuse" -> fuse_compounds(t)
      [] name = "emphatic" -> remove_safe_emphatics(t)
      [] name = "foreign" -> separate_foreign_words(t)
      [] name = "ws" -> StripThenCollapse(t)

HasLoanword(t) ==
    \E k \in 1..Len(foreign_separation_rules) : Contains(t, foreign_separation_rules[k].pat)

OneWord(t) == t # <<>> /\ \A k \in 1..Len(t) : ~IsSpace(t[k])

C17_SpellingStandardized ==
    StyleCalled => \A k \in 1..Len(Split(call_out)) : Split(call_out)[k] # VIRUDDA

\* C18: a loanword of the foreign-separation table with a suffix attached to
\* it comes out in its separated form, followed by the suffix as a word of
\* its own ("ಎಸಿವೆಂಟ್ಗಳಿವೆ" -> "ಎಸಿ ವೆಂಟ್ ಗಳಿವೆ").
C18_LoanwordSuffixSeparated ==
    StyleCalled
    => \A k \in 1..Len(foreign_separation_rules) :
          LET loan == foreign_separation_rules[k].pat
          IN  (OneWord(call_text) /\ StartsWith(call_text, loan)
                   /\ Len(call_text) > Len(loan))
              => call_out = foreign_separation_rules[k].repl \o <<SP>>
                              \o SubSeq(call_text, Len(loan) + 1, Len(call_text))

ConservativeCalled == call_kind = "conservative" /\ call_text \notin {<<>>, NONE}

\* C19: ConservativeKannadaNormalizer.normalize does NFC normalization and
\* whitespace cleanup only: the words of its output are the words of the
\* NFC-normalized input, the output has no leading, trailing or repeated
\* whitespace, and normalizing the output again returns it unchanged.
C19_ConservativeOnlyCleans ==
    ConservativeCalled
    => /\ StageNames(call_steps) = <<"unicode", "ws">>
       /\ Split(call_out) = Split(NFC(call_text))
       /\ call_out = Join(Split(NFC(call_text)), <<SP>>)
       /\ \A k \in 1..Len(call_out) :
             IsSpace(call_out[k])
             => /\ call_out[k] = SP
                /\ 1 < k /\ k < Len(call_out)
                /\ ~IsSpace(call_out[k + 1])
       /\ LastOf(ConservativeSteps(call_out), call_out) = call_out

C19_Witness ==
    /\ ConservativeCalled
    /\ call_text = <<KA, E_SIGN, LEN_MARK, SP, SP, MA>>
    /\ call_out = <<KA, EE_SIGN, SP, MA>>

(***************************************************************************)
(* Claims about CombinedNormalizer                                         *)
(***************************************************************************)
\* the form a rule record names as the more common one
CommonForm(rule) == IF PreferSplit(rule) THEN rule.split_form ELSE rule.target

\* C15: CombinedNormalizer.normalize first canonicalizes the validated
\* variants and then normalizes compounds with the loaded rules: every word
\* of the text after the first step that is the source of a loaded rule
\* comes out in that rule's more common form, every other word unchanged.
C15_VariantsThenCommonForm ==
    (cn_calls > 0 /\ ~Falsy(cn_text))
    => /\ cn_mid = normalize_proper_nouns(cn_map, Strip(NFC(cn_text)))
       /\ LET words == Split(cn_mid)
          IN  cn_out = Join([k \in 1..Len(words) |->
                               IF ODHas(cn_rule_map, words[k])
                               THEN CommonForm(ODGet(cn_rule_map, words[k], <<>>))
                               ELSE words[k]], <<SP>>)

(***************************************************************************)
(* Claims about the vocabulary stage                                       *)
(***************************************************************************)
VocabCalled == call_kind = "vocab"

Freq(w) == DictGet(vocabulary, w, 0)

\* the tokens of the text normalize_with_vocabulary was called on
CallTokens == Split(call_text)

RECURSIVE Flatten(_)
Flatten(ss) == IF ss = <<>> THEN <<>> ELSE ss[1] \o Flatten(Tail(ss))

\* the loop visits the tokens left to right, each once: a merge turn covers
\* two tokens, any other turn one, and the output is what the turns emitted
SinglePass ==
    /\ call_out = Join(Flatten([k \in 1..Len(call_steps) |-> call_steps[k].emit]), <<SP>>)
    /\ \A k \in 1..Len(call_steps) :
          LET s == call_steps[k]
              width == IF s.kind = "merge" THEN 2 ELSE 1
          IN  /\ s.at = (IF k = 1 THEN 1
                         ELSE call_steps[k - 1].at
                                + (IF call_steps[k - 1].kind = "merge" THEN 2 ELSE 1))
              /\ s.at + width - 1 <= Len(CallTokens)
              /\ k = Len(call_steps) => s.at + width - 1 = Len(CallTokens)
    /\ call_steps = <<>> => CallTokens = <<>>

\* C21 (as the code has it): in one left-to-right pass the current and the
\* next token are merged exactly when the frequency of their concatenation
\* is more than twice the smaller of the two tokens' frequencies (0 for a
\* word not in the vocabulary); the merge takes both tokens, the scan goes
\* on after them, and the merged token is emitted as it is
C21_MergeAboveTwiceTheRarer ==
    VocabCalled =>
        /\ SinglePass
        /\ \A k \in 1..Len(call_steps) :
              LET s == call_steps[k]
                  token == CallTokens[s.at]
              IN  /\ s.kind = "merge" <=>
                        /\ s.at < Len(CallTokens)
                        /\ Freq(token \o CallTokens[s.at + 1])
                              > 2 * Min2(Freq(token), Freq(CallTokens[s.at + 1]))
                  /\ s.kind = "merge" => s.emit = <<token \o CallTokens[s.at + 1]>>

\* C21 as stated: the merge happens exactly when the concatenation is more
\* than twice as frequent as either token, that is as each of the two
C21_MergeAboveTwiceEither ==
    VocabCalled =>
        \A k \in 1..Len(call_steps) :
            LET s == call_steps[k]
                token == CallTokens[s.at]
            IN  s.kind = "merge" <=>
                    /\ s.at < Len(CallTokens)
                    /\ Freq(token \o CallTokens[s.at + 1])
                          > 2 * Max2(Freq(token), Freq(CallTokens[s.at + 1]))

\* a merge whose result could itself be merged with the token after it,
\* and is not
C21_Witness ==
    /\ VocabCalled
    /\ \E k \in 1..Len(call_steps) :
          LET s == call_steps[k]
          IN  /\ s.kind = "merge"
              /\ s.at + 2 <= Len(CallTokens)
              /\ Freq(s.emit[1] \o CallTokens[s.at + 2])
                    > 2 * Min2(Freq(s.emit[1]), Freq(CallTokens[s.at + 2]))
              /\ Len(Split(call_out)) > 1

\* the split points range(2, len(token) - 1) and the score of each
SplitPoints(token) == 2..(Len(token) - 2)

SplitScore(token, j) ==
    Min2(Freq(SubSeq(token, 1, j)), Freq(SubSeq(token, j + 1, Len(token))))

\* the best score over the split points, and the leftmost point that has it
BestScore(token) ==
    CHOOSE b \in {SplitScore(token, j) : j \in SplitPoints(token)} :
        \A j \in SplitPoints(token) : SplitScore(token, j) <= b

BestPoint(token) ==
    CHOOSE j \in SplitPoints(token) :
        /\ SplitScore(token, j) = BestScore(token)
        /\ \A h \in SplitPoints(token) : SplitScore(token, h) = BestScore(token) => j <= h

Splittable(token) ==
    /\ token \notin DOMAIN vocabulary
    /\ SplitPoints(token) # {}
    /\ BestScore(token) > 10

\* C22: a token that was not merged is split only if it is not a key of
\* the vocabulary, at the leftmost j in 2..len(token)-2 with the greatest
\* min(freq(token[:j]), freq(token[j:])), and only if that minimum is
\* greater than 10; every other unmerged token is emitted unchanged
C22_SplitAtBestPointAboveTen ==
    VocabCalled =>
        \A k \in 1..Len(call_steps) :
            LET s == call_steps[k]
                token == CallTokens[s.at]
            IN  s.kind # "merge" =>
                    IF Splittable(token)
                    THEN s.emit = <<SubSeq(token, 1, BestPoint(token)),
                                    SubSeq(token, BestPoint(token) + 1, Len(token))>>
                    ELSE s.emit = <<token>>

\* a token split at the first of two equally good points, one split at
\* the second point because it is better, one left whole at a best score
\* of exactly 10, and one left whole because it is a key with count 0
C22_WitnessTie ==
    /\ VocabCalled
    /\ \E k \in 1..Len(call_steps) :
          LET token == CallTokens[call_steps[k].at]
          IN  /\ call_steps[k].kind = "split"
              /\ Cardinality({j \in SplitPoints(token) :
                                SplitScore(token, j) = BestScore(token)}) > 1

C22_WitnessLater ==
    /\ VocabCalled
    /\ \E k \in 1..Len(call_steps) :
          /\ call_steps[k].kind = "split"
          /\ BestPoint(CallTokens[call_steps[k].at]) > 2

C22_WitnessThreshold ==
    /\ VocabCalled
    /\ \E k \in 1..Len(call_steps) :
          LET token == CallTokens[call_steps[k].at]
          IN  /\ call_steps[k].kind = "original"
              /\ SplitPoints(token) # {}
              /\ BestScore(token) = 10

C22_WitnessZeroKey ==
    /\ VocabCalled
    /\ \E k \in 1..Len(call_steps) :
          LET token == CallTokens[call_steps[k].at]
          IN  /\ call_steps[k].kind = "keep"
              /\ Freq(token) = 0
              /\ SplitPoints(token) # {}
              /\ BestScore(token) > 10

\* the words of the output that are not among the input tokens
NewTokens ==
    {Split(call_out)[k] : k \in 1..Len(Split(call_out))}
        \ {CallTokens[k] : k \in 1..Len(CallTokens)}

\* C28: with non-negative frequencies, every output token that is not an
\* input token is a vocabulary key with positive frequency; a merged
\* compound has frequency >= 1, both parts of a split have frequency > 10
C28_NewTokensAreInVocabulary ==
    VocabCalled =>
        /\ \A w \in NewTokens : w \in DOMAIN vocabulary /\ vocabulary[w] > 0
        /\ \A k \in 1..Len(call_steps) :
              LET s == call_steps[k]
              IN  /\ s.kind = "merge" => Freq(s.emit[1]) >= 1
                  /\ s.kind = "split" => Freq(s.emit[1]) > 10 /\ Freq(s.emit[2]) > 10
                  /\ s.kind \in {"keep", "original"} => s.emit = <<CallTokens[s.at]>>

\* a call that puts out a merged word of frequency below 10 and the two
\* parts of a split
C28_Witness ==
    /\ VocabCalled
    /\ \A w \in DOMAIN vocabulary : vocabulary[w] >= 0
    /\ \E k, h \in 1..Len(call_steps) :
          /\ call_steps[k].kind = "merge" /\ Freq(call_steps[k].emit[1]) < 10
          /\ call_steps[h].kind = "split"
    /\ Cardinality(NewTokens) >= 3

RECURSIVE Without(_, _)
Without(s, drop) ==
    IF s = <<>> THEN <<>>
    ELSE (IF Head(s) \in drop THEN <<>> ELSE <<Head(s)>>) \o Without(Tail(s), drop)

\* the characters str.split() separates on, among those of the model
Whitespace == {c \in {SP, TAB} : IsSpace(c)}

\* C29: the output without its spaces is the input without its whitespace
C29_OnlyWordBoundariesMove ==
    VocabCalled => Without(call_out, {SP}) = Without(call_text, Whitespace)

\* a call that both removed a boundary and added one
C29_Witness ==
    /\ VocabCalled
    /\ \E k, h \in 1..Len(call_steps) :
          call_steps[k].kind = "merge" /\ call_steps[h].kind = "split"
    /\ call_out # call_text
    /\ Len(call_out) = Len(call_text)

(***************************************************************************)
(* Claims about the punctuation stage                                      *)
(***************************************************************************)
DashVariants == {EN_DASH, EM_DASH, MINUS_SIGN}

QuoteVariants == {LSQUOTE, RSQUOTE, LDQUOTE, RDQUOTE}

\* the character a dash or quote variant is to be folded to
FoldedTo(c) ==
    IF c \in DashVariants THEN HYPHEN
    ELSE IF c \in {LDQUOTE, RDQUOTE} THEN DQUOTE
    ELSE IF c \in {LSQUOTE, RSQUOTE} THEN SQUOTE
    ELSE c

\* C26: the punctuation stage of normalize folds every dash variant to
\* '-' and every curly quote to the ASCII quote of its kind, and no dash
\* or quote variant is left in the output of the call
C26_DashesAndQuotesFolded ==
    CorpusCalled =>
        /\ \A i \in 1..Len(call_steps) :
              call_steps[i][1] = "punct"
              => call_steps[i][2] =
                    [k \in 1..Len(StageInput(i)) |-> FoldedTo(StageInput(i)[k])]
        /\ call_text # NONE =>
              \A k \in 1..Len(call_out) : call_out[k] \notin DashVariants \cup QuoteVariants

\* the part of C26 the code keeps: the three dash variants become '-'
C26_DashesFolded ==
    CorpusCalled =>
        /\ \A i \in 1..Len(call_steps) :
              call_steps[i][1] = "punct"
              => /\ Len(call_steps[i][2]) = Len(StageInput(i))
                 /\ \A k \in 1..Len(StageInput(i)) :
                       StageInput(i)[k] \in DashVariants => call_steps[i][2][k] = HYPHEN
        /\ call_text # NONE => \A k \in 1..Len(call_out) : call_out[k] \notin DashVariants

(***************************************************************************)
(* Claims about levenshtein_distance                                       *)
(***************************************************************************)
\* the edit distance by its recurrence: insertions, deletions and
\* substitutions, each of cost 1
RECURSIVE EditDistance(_, _)
EditDistance(a, b) ==
    IF a = <<>> THEN Len(b)
    ELSE IF b = <<>> THEN Len(a)
    ELSE Min2(Min2(1 + EditDistance(Tail(a), b), 1 + EditDistance(a, Tail(b))),
              (IF Head(a) = Head(b) THEN 0 ELSE 1) + EditDistance(Tail(a), Tail(b)))

DistanceCalled == call_kind = "distance"

\* C24: levenshtein_distance(s1, s2, max_dist) is the edit distance when
\* that is at most max_dist and some value above max_dist otherwise, for
\* all strings, empty ones included, and max_dist >= 0; the pairs that
\* pass 0 < dist <= max_dist are those whose edit distance is in that range
C24_BoundedDistanceIsExact ==
    DistanceCalled =>
        LET exact == EditDistance(call_text[1], call_text[2])
            max_dist == call_steps[1]
        IN  /\ exact <= max_dist => call_out = exact
            /\ exact > max_dist => call_out > max_dist
            /\ (0 < call_out /\ call_out <= max_dist) <=> (0 < exact /\ exact <= max_dist)

\* a call that the row test ends early: the lengths are within max_dist of
\* each other and the value returned is not the distance
C24_Witness ==
    /\ DistanceCalled
    /\ Len(call_text[1]) - Len(call_text[2]) <= call_steps[1]
    /\ Len(call_text[2]) - Len(call_text[1]) <= call_steps[1]
    /\ call_out = call_steps[1] + 1
    /\ call_out < EditDistance(call_text[1], call_text[2])

\* calls with an empty string, with max_dist = 0, and one that returns a
\* distance above max_dist from the last row
C24_WitnessEmpty ==
    /\ DistanceCalled
    /\ call_text[1] = <<>> /\ call_text[2] # <<>>
    /\ call_out = Len(call_text[2])

C24_WitnessZero ==
    DistanceCalled /\ call_steps[1] = 0 /\ call_out = 0 /\ call_text[1] # <<>>

C24_WitnessLastRow ==
    DistanceCalled /\ call_out > call_steps[1] + 1

(***************************************************************************)
(* Claims about extract_mismatched_words                                   *)
(***************************************************************************)
ExtractCalled == call_kind \in {"extracted", "raised"}

\* the positions compared: record n, index k up to the shorter word list
ComparedPositions ==
    UNION {{<<n, k>> : k \in 1..Min2(Len(Split(call_text[n].ground_truth)),
                                      Len(Split(call_text[n].prediction)))} :
           n \in 1..Len(call_text)}

RefAt(pos) == Split(call_text[pos[1]].ground_truth)[pos[2]]

HypAt(pos) == Split(call_text[pos[1]].prediction)[pos[2]]

\* the positions whose two words differ with edit distance 1..3
MismatchPositions ==
    {pos \in ComparedPositions :
        /\ RefAt(pos) # HypAt(pos)
        /\ EditDistance(RefAt(pos), HypAt(pos)) \in 1..3}

MismatchPairs == {<<RefAt(pos), HypAt(pos)>> : pos \in MismatchPositions}

\* the records are one per pair of MismatchPairs, each with its two words,
\* the number of its positions and its distance, in descending count
RecordsMatchPairs ==
    /\ Len(call_out) = Cardinality(MismatchPairs)
    /\ {<<call_out[r].ref_word, call_out[r].hyp_word>> : r \in 1..Len(call_out)}
          = MismatchPairs
    /\ \A r \in 1..Len(call_out) :
          /\ call_out[r].count =
                Cardinality({pos \in MismatchPositions :
                    RefAt(pos) = call_out[r].ref_word /\ HypAt(pos) = call_out[r].hyp_word})
          /\ call_out[r].edit_distance
                = EditDistance(call_out[r].ref_word, call_out[r].hyp_word)
          /\ call_out[r].edit_distance \in 1..3
    /\ \A r \in 1..(Len(call_out) - 1) : call_out[r].count >= call_out[r + 1].count

\* C23: extract_mismatched_words compares the words by index up to the
\* shorter list and returns exactly one record per distinct (ref_word,
\* hyp_word) pair that differs at a compared position with distance 1..3,
\* with its count over the whole prediction set and its distance, ordered
\* by descending count, for every word whitespace splitting can give
C23_OneRecordPerPair ==
    ExtractCalled => call_kind = "extracted" /\ RecordsMatchPairs

HasSeparator(w) == \E k \in 1..Len(w) : w[k] = PIPE

\* the same for prediction sets in which no mismatched word holds a '|'
C23_OneRecordPerPairWithoutSeparator ==
    (ExtractCalled /\ \A pair \in MismatchPairs :
                        ~HasSeparator(pair[1]) /\ ~HasSeparator(pair[2]))
        => call_kind = "extracted" /\ RecordsMatchPairs

\* a call that returns two records, the first counted twice
C23_WitnessReturned ==
    /\ call_kind = "extracted"
    /\ Len(call_out) >= 2
    /\ call_out[1].count = 2

(***************************************************************************)
(* Claims about the counts of CorpusAnalyzer                               *)
(***************************************************************************)
AnalyzeCalled == call_kind = "analyze"

\* the lines of a file of runs, one by one
RECURSIVE FileLines(_)
FileLines(runs) ==
    IF runs = <<>> THEN <<>>
    ELSE [k \in 1..runs[1][2] |-> runs[1][1]] \o FileLines(Tail(runs))

\* the token lists of the lines call n reads: all of them, or the first
\* max_lines
LinesRead(n) ==
    LET lines == FileLines(call_text[n][1])
        cap == call_text[n][2]
        kept == IF cap = 0 THEN Len(lines) ELSE Min2(cap, Len(lines))
    IN  [k \in 1..kept |-> Tokenize(Strip(lines[k]))]

\* the places <<call, line, index>> of the tokens read
TokenPlaces ==
    UNION {UNION {{<<n, l, k>> : k \in 1..Len(LinesRead(n)[l])} :
                  l \in 1..Len(LinesRead(n))} :
           n \in 1..Len(call_text)}

TokenAt(pl) == LinesRead(pl[1])[pl[2]][pl[3]]

\* the places followed by another token on the same line
PairPlaces == {pl \in TokenPlaces : pl[3] < Len(LinesRead(pl[1])[pl[2]])}

NextTokenAt(pl) == LinesRead(pl[1])[pl[2]][pl[3] + 1]

\* C30: after any sequence of analyze_file calls, with any caps, each
\* bigram count is at most the word count of either part; words are
\* counted once per token of the lines within the cap and bigrams once per
\* pair of adjacent tokens of one such line, so a bigram that meets a
\* min_freq >= 1 has both parts in word_freq
C30_BigramsBoundedByWords ==
    AnalyzeCalled =>
        /\ \A n \in 1..Len(bigram_freq) :
              LET a == bigram_freq[n][1][1]
                  b == bigram_freq[n][1][2]
                  c == bigram_freq[n][2]
              IN  /\ c <= ODGet(word_freq, a, 0)
                  /\ c <= ODGet(word_freq, b, 0)
                  /\ c >= 1 => ODHas(word_freq, a) /\ ODHas(word_freq, b)
                  /\ c = Cardinality({pl \in PairPlaces :
                                         TokenAt(pl) = a /\ NextTokenAt(pl) = b})
        /\ ODKeys(bigram_freq) = {<<TokenAt(pl), NextTokenAt(pl)>> : pl \in PairPlaces}
        /\ ODKeys(word_freq) = {TokenAt(pl) : pl \in TokenPlaces}
        /\ \A n \in 1..Len(word_freq) :
              word_freq[n][2] = Cardinality({pl \in TokenPlaces : TokenAt(pl) = word_freq[n][1]})
        /\ (aphase = "found" /\ found_min_freq >= 1) =>
              \A n \in 1..Len(variations) : \A k \in 1..Len(variations[n][2]) :
                  LET v == variations[n][2][k]
                  IN  /\ v.spaced_freq >= 1
                      /\ ODGet(word_freq, v.part1, 0) >= v.spaced_freq
                      /\ ODGet(word_freq, v.part2, 0) >= v.spaced_freq

\* two calls, one of them cut short by its cap, a bigram as frequent as
\* one of its parts, and a variation found with min_freq >= 1
C30_Witness ==
    /\ AnalyzeCalled
    /\ Len(call_text) = 2
    /\ \E n \in 1..2 : Len(LinesRead(n)) < Len(FileLines(call_text[n][1]))
    /\ \E n \in 1..Len(bigram_freq) :
          bigram_freq[n][2] = ODGet(word_freq, bigram_freq[n][1][1], 0)
    /\ aphase = "found" /\ found_min_freq >= 1 /\ variations # <<>>

(***************************************************************************)
(* Claims about load_rules and apply_rules                                 *)
(***************************************************************************)
RulesCalled == call_kind = "rules"

\* C25: apply_rules applies the rules one at a time in rule_map order, each
\* as a literal replace-all on the text the rules before it left; the
\* result is that of the last rule
C25_RulesAppliedInMapOrder ==
    RulesCalled =>
        /\ Len(call_steps) = Len(rule_map)
        /\ \A k \in 1..Len(rule_map) :
              call_steps[k] = Replace(IF k = 1 THEN call_text ELSE call_steps[k - 1],
                                      rule_map[k][1], rule_map[k][2])
        /\ call_out = (IF rule_map = <<>> THEN call_text ELSE call_steps[Len(rule_map)])

\* the two rules with overlapping sources, loaded in one order: the other
\* order of the same rules gives another output for the same text
C25_Witness ==
    /\ RulesCalled
    /\ Len(rule_map) = 2
    /\ \E n, k \in 1..Len(rule_map[1][1]) :
          SubSeq(rule_map[1][1], n, k) = rule_map[2][1]
    /\ call_out # ApplyRuleMap(call_text, ReverseSeq(rule_map))
    /\ \E file \in OverlapRuleFiles : BuildRuleMap(<<>>, file) = ReverseSeq(rule_map)

\* the same text under the other order
C25_WitnessOtherOrder ==
    /\ RulesCalled
    /\ Len(rule_map) = 2
    /\ \E n, k \in 1..Len(rule_map[2][1]) :
          SubSeq(rule_map[2][1], n, k) = rule_map[1][1]
    /\ call_text = KMK
    /\ call_out # ApplyRuleMap(call_text, ReverseSeq(rule_map))

\* the rules of the file that have the source of rule k
SameSource(k) == {h \in 1..Len(rules) : rules[h].source = rules[k].source}

LastOfSource(k) == CHOOSE h \in SameSource(k) : \A g \in SameSource(k) : g <= h

\* C27: after load_rules, rule_map has one target per rule source; of
\* several rules with the same source the last in file order gives the
\* target, and in a file the analyzer wrote, which is sorted by descending
\* confidence, that is a rule of the lowest confidence for the source
C27_LastRuleOfSourceWins ==
    loads > 0 =>
        /\ Cardinality(ODKeys(rule_map)) = Len(rule_map)
        /\ {rules[k].source : k \in 1..Len(rules)} \subseteq ODKeys(rule_map)
        /\ loads = 1 => ODKeys(rule_map) = {rules[k].source : k \in 1..Len(rules)}
        /\ \A k \in 1..Len(rules) :
              ODGet(rule_map, rules[k].source, <<>>) = rules[LastOfSource(k)].target
        /\ rules \in AnalyzerRuleFiles =>
              /\ \A k \in 1..(Len(rules) - 1) :
                    ~RatioGreater(rules[k + 1].confidence, rules[k].confidence)
              /\ \A k \in 1..Len(rules) : \A h \in SameSource(k) :
                    ~RatioGreater(rules[LastOfSource(k)].confidence, rules[h].confidence)

\* an analyzer file with two rules for one source, of different
\* confidence: the target kept is that of the less confident rule
C27_Witness ==
    /\ loads > 0
    /\ rules \in AnalyzerRuleFiles
    /\ \E k, h \in 1..Len(rules) :
          /\ k < h
          /\ rules[k].source = rules[h].source
          /\ rules[k].target # rules[h].target
          /\ RatioGreater(rules[k].confidence, rules[h].confidence)
          /\ ODGet(rule_map, rules[k].source, <<>>) = rules[h].target

====
